---- MODULE Spec2Model ----
(***************************************************************************)
(* A model of the match / entity engine of logic.py (Entity, Match,        *)
(* GameSystem, MatchManager) and of the commands of vtt_commands.py that   *)
(* reach it.  Records stand for the Python objects, operators for the      *)
(* methods, one action per operation.                                      *)
(***************************************************************************)
EXTENDS Integers, Sequences, FiniteSets, TLC

\* ------------------------------------------------------------------------
\* Bounds of the model
\* ------------------------------------------------------------------------
GridW == 3
GridH == 1
MaxHp == 1
MaxAmount == 1
MaxOverkill == 1
MaxInit == 2
MaxRound == 2
MaxCount == 1
FaceW == 10
FaceH == 8

\* ------------------------------------------------------------------------
\* Values
\* ------------------------------------------------------------------------
\* Python's None, and a present optional value
None == <<>>
Some(v) == <<v>>

\* logic.py: ALLOWED_DIRECTIONS
ALLOWED_DIRECTIONS == {"up", "down", "left", "right"}

\* logic.py: DEFAULT_SYSTEM_SETTINGS
DEFAULT_SYSTEM_SETTINGS ==
    [spawn_face_toward_center |-> TRUE, spawn_default_facing |-> "up"]

\* The entity ids, entity names, match ids and channel keys the operations
\* are called with ("" is an id a caller can supply: shlex gives it for "").
EntityIds == {"", "a", "b"}
EntityNames == {"Orc", "ant"}
MatchIds == {"m1", "m2"}

\* Python's order on the strings used as sort keys (code point order)
StrOrder == <<"", "Orc", "a", "add", "ant", "b", "ent", "orc", "tp", "turn">>
StrRank(s) == CHOOSE i \in 1..Len(StrOrder) : StrOrder[i] = s
StrLess(s, t) == StrRank(s) < StrRank(t)

\* str.lower()
Lower(s) ==
    IF s = "Orc" THEN "orc"
    ELSE IF s = "LEFT" THEN "left"
    ELSE IF s = "L" THEN "l"
    ELSE s

\* Python truthiness of an optional string: None and "" are falsy
Truthy(opt) == opt # None /\ opt[1] # ""

Max(a, b) == IF a >= b THEN a ELSE b
Min(a, b) == IF a <= b THEN a ELSE b
Abs(a) == IF a >= 0 THEN a ELSE -a

\* int(round(n2 / 2)): Python rounds a half to the even neighbour
RoundHalf(n2) ==
    IF n2 % 2 = 0 THEN n2 \div 2
    ELSE LET k == (n2 - 1) \div 2 IN IF k % 2 = 0 THEN k ELSE k + 1

\* ------------------------------------------------------------------------
\* Default facing
\* ------------------------------------------------------------------------
_dominant_axis_dir(dx, dy) ==
    IF Abs(dy) >= Abs(dx)
    THEN (IF dy > 0 THEN "down" ELSE "up")
    ELSE (IF dx > 0 THEN "right" ELSE "left")

\* cx - x = ((width + 1) - 2x) / 2, kept as the doubled integer
_default_facing_for(x, y, width, height) ==
    _dominant_axis_dir(RoundHalf((width + 1) - 2 * x),
                       RoundHalf((height + 1) - 2 * y))

\* ------------------------------------------------------------------------
\* Entity: construction and primitives
\* ------------------------------------------------------------------------
\* Entity(id, name, hp, x, y) followed by __post_init__
NewEntity(id, name, hp, x, y) ==
    [id |-> id, name |-> name, hp |-> hp, max_hp |-> hp, x |-> x, y |-> y,
     initiative |-> None, facing |-> "up"]

is_alive(e) == e.hp > 0

take_damage(e, amount) == [e EXCEPT !.hp = e.hp - Max(0, amount)]

\* a heal that forgets the upper bound max_hp
heal_without_clamp(e, amount) == [e EXCEPT !.hp = e.hp + Max(0, amount)]

heal(e, amount) == [e EXCEPT !.hp = Min(e.max_hp, e.hp + Max(0, amount))]

\* ------------------------------------------------------------------------
\* Match
\* ------------------------------------------------------------------------
\* Python dicts: the empty dict, d[k] = v, del d[k]
EmptyMap == [k \in {} |-> None]
Put(d, k, v) == [i \in DOMAIN d \cup {k} |-> IF i = k THEN v ELSE d[i]]
Del(d, k) == [i \in DOMAIN d \ {k} |-> d[i]]

NewMatch(width, height, system_name, rules) ==
    [grid_width |-> width, grid_height |-> height, system_name |-> system_name,
     entities |-> EmptyMap, turn_order |-> <<>>, active_index |-> 0,
     turn_number |-> 1, rules |-> rules]

in_bounds(m, x, y) ==
    1 <= x /\ x <= m.grid_width /\ 1 <= y /\ y <= m.grid_height

is_occupied(m, x, y, ignore_entity_id) ==
    \E eid \in DOMAIN m.entities :
        /\ ~(Truthy(ignore_entity_id) /\ eid = ignore_entity_id[1])
        /\ m.entities[eid].x = x
        /\ m.entities[eid].y = y
        /\ is_alive(m.entities[eid])

_spawn_facing(m, x, y) ==
    IF m.rules.spawn_face_toward_center
    THEN _default_facing_for(x, y, m.grid_width, m.grid_height)
    ELSE (IF m.rules.spawn_default_facing \in ALLOWED_DIRECTIONS
          THEN m.rules.spawn_default_facing ELSE "up")

\* Python's 0-based list.index, and the element at a 0-based index
IndexOf(seq, v) == (CHOOSE i \in 1..Len(seq) : seq[i] = v) - 1
At(seq, i) == seq[i + 1]
InSeq(seq, v) == \E i \in 1..Len(seq) : seq[i] = v
Without(seq, v) == SelectSeq(seq, LAMBDA u : u # v)

\* the sort key (-initiative, name.lower(), id), compared as Python tuples
KeyLess(e1, e2) ==
    \/ e1.initiative[1] > e2.initiative[1]
    \/ /\ e1.initiative[1] = e2.initiative[1]
       /\ \/ StrLess(Lower(e1.name), Lower(e2.name))
          \/ /\ Lower(e1.name) = Lower(e2.name)
             /\ StrLess(e1.id, e2.id)

RECURSIVE SortedIds(_, _)
SortedIds(ents, ids) ==
    IF ids = {} THEN <<>>
    ELSE LET first == CHOOSE i \in ids :
                        \A j \in ids \ {i} : KeyLess(ents[i], ents[j])
         IN <<first>> \o SortedIds(ents, ids \ {first})

\* a rebuild that leaves active_index alone when the active id is gone
rebuild_keeps_stale_index(m) ==
    LET prev_current_id ==
            IF 0 <= m.active_index /\ m.active_index < Len(m.turn_order)
            THEN Some(At(m.turn_order, m.active_index)) ELSE None
        ordered == SortedIds(m.entities,
                      {i \in DOMAIN m.entities :
                          m.entities[i].initiative # None /\ is_alive(m.entities[i])})
    IN [m EXCEPT !.turn_order = ordered,
                 !.active_index =
                     IF Truthy(prev_current_id) /\ InSeq(ordered, prev_current_id[1])
                     THEN IndexOf(ordered, prev_current_id[1]) ELSE m.active_index]

\* a rebuild that starts the rounds again when the turn order runs empty
rebuild_restarts_rounds(m) ==
    LET prev_current_id ==
            IF 0 <= m.active_index /\ m.active_index < Len(m.turn_order)
            THEN Some(At(m.turn_order, m.active_index)) ELSE None
        ordered == SortedIds(m.entities,
                      {i \in DOMAIN m.entities :
                          m.entities[i].initiative # None /\ is_alive(m.entities[i])})
    IN [m EXCEPT !.turn_order = ordered,
                 !.active_index =
                     IF Truthy(prev_current_id) /\ InSeq(ordered, prev_current_id[1])
                     THEN IndexOf(ordered, prev_current_id[1]) ELSE 0,
                 !.turn_number = IF ordered = <<>> THEN 1 ELSE @]

\* a rebuild that reads the active id one position too far
rebuild_reads_next_position(m) ==
    LET prev_current_id ==
            IF 0 <= m.active_index + 1 /\ m.active_index + 1 < Len(m.turn_order)
            THEN Some(At(m.turn_order, m.active_index + 1)) ELSE None
        ordered == SortedIds(m.entities,
                      {i \in DOMAIN m.entities :
                          m.entities[i].initiative # None /\ is_alive(m.entities[i])})
    IN [m EXCEPT !.turn_order = ordered,
                 !.active_index =
                     IF Truthy(prev_current_id) /\ InSeq(ordered, prev_current_id[1])
                     THEN IndexOf(ordered, prev_current_id[1]) ELSE 0]

_rebuild_turn_order(m) ==
    LET prev_current_id ==
            IF 0 <= m.active_index /\ m.active_index < Len(m.turn_order)
            THEN Some(At(m.turn_order, m.active_index)) ELSE None
        ordered == SortedIds(m.entities,
                      {i \in DOMAIN m.entities :
                          m.entities[i].initiative # None /\ is_alive(m.entities[i])})
    IN [m EXCEPT !.turn_order = ordered,
                 !.active_index =
                     IF Truthy(prev_current_id) /\ InSeq(ordered, prev_current_id[1])
                     THEN IndexOf(ordered, prev_current_id[1]) ELSE 0]

current_entity_id(m) ==
    IF m.turn_order = <<>> THEN None ELSE Some(At(m.turn_order, m.active_index))

\* a next_turn that counts a round when the index it leaves is 0
next_turn_counts_on_leaving_zero(m) ==
    IF m.turn_order = <<>> THEN [match |-> m, ret |-> None]
    ELSE LET idx == (m.active_index + 1) % Len(m.turn_order)
         IN [match |-> [m EXCEPT !.active_index = idx,
                                 !.turn_number = IF m.active_index = 0 THEN @ + 1 ELSE @],
             ret |-> Some(At(m.turn_order, idx))]

\* a next_turn that counts a round on every call
next_turn_counts_every_call(m) ==
    IF m.turn_order = <<>> THEN [match |-> m, ret |-> None]
    ELSE LET idx == (m.active_index + 1) % Len(m.turn_order)
         IN [match |-> [m EXCEPT !.active_index = idx, !.turn_number = @ + 1],
             ret |-> Some(At(m.turn_order, idx))]

\* returns the match and the returned id (None when the order is empty)
next_turn(m) ==
    IF m.turn_order = <<>> THEN [match |-> m, ret |-> None]
    ELSE LET idx == (m.active_index + 1) % Len(m.turn_order)
         IN [match |-> [m EXCEPT !.active_index = idx,
                                 !.turn_number = IF idx = 0 THEN @ + 1 ELSE @],
             ret |-> Some(At(m.turn_order, idx))]

\* ------------------------------------------------------------------------
\* Entity: high-level actions.  Each returns the outcome ("ok" or the name
\* of the exception raised) and the match as the call leaves it.
\* ------------------------------------------------------------------------
\* Entity.bind: the facing is recomputed when the entity is inside the grid
bind(e, m) ==
    IF in_bounds(m, e.x, e.y)
    THEN [e EXCEPT !.facing = _spawn_facing(m, e.x, e.y)] ELSE e

\* a spawn that registers the entity before it looks for its id in the match
spawn_registers_before_duplicate_check(e, is_bound, m, x, y, initiative) ==
    LET moved == [e EXCEPT !.x = x, !.y = y]
        e1 == IF initiative # None
              THEN [bind(moved, m) EXCEPT !.initiative = initiative]
              ELSE bind(moved, m)
    IN IF is_bound THEN [result |-> "VTTError", match |-> m, entity |-> e]
       ELSE IF ~in_bounds(m, x, y)
       THEN [result |-> "OutOfBounds", match |-> m, entity |-> e]
       ELSE IF is_occupied(m, x, y, None)
       THEN [result |-> "Occupied", match |-> m, entity |-> e]
       ELSE [result |-> IF e1.id \in DOMAIN m.entities THEN "DuplicateId" ELSE "ok",
             match |-> _rebuild_turn_order(
                           [m EXCEPT !.entities = Put(m.entities, e1.id, e1)]),
             entity |-> e1]

\* a spawn that leaves the facing the entity was constructed with
spawn_without_facing(e, is_bound, m, x, y, initiative) ==
    LET moved == [e EXCEPT !.x = x, !.y = y]
        e1 == IF initiative # None
              THEN [moved EXCEPT !.initiative = initiative] ELSE moved
    IN IF is_bound THEN [result |-> "VTTError", match |-> m, entity |-> e]
       ELSE IF ~in_bounds(m, x, y)
       THEN [result |-> "OutOfBounds", match |-> m, entity |-> e]
       ELSE IF is_occupied(m, x, y, None)
       THEN [result |-> "Occupied", match |-> m, entity |-> e]
       ELSE IF e1.id \in DOMAIN m.entities
       THEN [result |-> "DuplicateId", match |-> m, entity |-> e1]
       ELSE [result |-> "ok",
             match |-> _rebuild_turn_order(
                           [m EXCEPT !.entities = Put(m.entities, e1.id, e1)]),
             entity |-> e1]

\* is_bound: e._match is not None when spawn is called
spawn(e, is_bound, m, x, y, initiative) ==
    IF is_bound THEN [result |-> "VTTError", match |-> m, entity |-> e]
    ELSE IF ~in_bounds(m, x, y)
    THEN [result |-> "OutOfBounds", match |-> m, entity |-> e]
    ELSE IF is_occupied(m, x, y, None)
    THEN [result |-> "Occupied", match |-> m, entity |-> e]
    ELSE LET moved == [e EXCEPT !.x = x, !.y = y]
             bound == bind(moved, m)
             e1 == IF initiative # None
                   THEN [bound EXCEPT !.initiative = initiative] ELSE bound
         IN IF e1.id \in DOMAIN m.entities
            THEN [result |-> "DuplicateId", match |-> m, entity |-> e1]
            ELSE [result |-> "ok",
                  match |-> _rebuild_turn_order(
                                [m EXCEPT !.entities = Put(m.entities, e1.id, e1)]),
                  entity |-> e1]

\* the entity registered under id in m removes itself
remove(m, id) ==
    LET m1 == IF id \in DOMAIN m.entities
              THEN [m EXCEPT !.entities = Del(m.entities, id)] ELSE m
        m2 == IF InSeq(m1.turn_order, id)
              THEN LET idx == IndexOf(m1.turn_order, id)
                       rest == Without(m1.turn_order, id)
                   IN [m1 EXCEPT
                         !.turn_order = rest,
                         !.active_index =
                             IF m1.active_index >= Len(rest)
                             THEN Max(0, Len(rest) - 1)
                             ELSE IF m1.active_index > idx
                             THEN Max(0, m1.active_index - 1)
                             ELSE m1.active_index]
              ELSE m1
    IN _rebuild_turn_order(m2)

\* An Entity object with its back-reference: e holds its fields, _match the
\* id of the match it is bound to, or None.  The matches hold the entities
\* they register by value, so an object is told apart by its back-reference.
EntityObject(e, match_id) == [e |-> e, _match |-> match_id]

\* Entity.spawn on an object: move_to, bind and the initiative are done
\* before the duplicate check, so DuplicateId leaves the object bound
Entity_spawn(o, ms, mid, x, y, initiative) ==
    LET r == spawn(o.e, o._match # None, ms[mid], x, y, initiative)
    IN [result |-> r.result,
        matches |-> [ms EXCEPT ![mid] = r.match],
        obj |-> IF r.result \in {"ok", "DuplicateId"}
                THEN EntityObject(r.entity, Some(mid)) ELSE o]

\* an Entity.remove that keeps the back-reference
entity_remove_keeps_backref(o, ms) ==
    IF o._match = None THEN [result |-> "VTTError", matches |-> ms, obj |-> o]
    ELSE [result |-> "ok",
          matches |-> [ms EXCEPT ![o._match[1]] = remove(@, o.e.id)],
          obj |-> o]

\* Entity.remove on an object: _require_match raises VTTError when unbound
Entity_remove(o, ms) ==
    IF o._match = None THEN [result |-> "VTTError", matches |-> ms, obj |-> o]
    ELSE [result |-> "ok",
          matches |-> [ms EXCEPT ![o._match[1]] = remove(@, o.e.id)],
          obj |-> [o EXCEPT !._match = None]]

tp(m, id, x, y) ==
    IF ~in_bounds(m, x, y) THEN [result |-> "OutOfBounds", match |-> m]
    ELSE IF is_occupied(m, x, y, Some(id)) THEN [result |-> "Occupied", match |-> m]
    ELSE [result |-> "ok",
          match |-> [m EXCEPT !.entities[id].x = x, !.entities[id].y = y]]

\* direction.lower() mapped to (dx, dy); <<0, 0>> for an unknown direction
DirDelta(d) ==
    IF d \in {"up", "u"} THEN <<0, -1>>
    ELSE IF d \in {"down", "d"} THEN <<0, 1>>
    ELSE IF d \in {"left", "l"} THEN <<-1, 0>>
    ELSE IF d \in {"right", "r"} THEN <<1, 0>>
    ELSE <<0, 0>>

DeltaName(dx, dy) ==
    IF dx = -1 THEN "left" ELSE IF dx = 1 THEN "right"
    ELSE IF dy = -1 THEN "up" ELSE "down"

\* the inner loop of move_dirs: n steps of (dx, dy) from st
RECURSIVE StepN(_, _, _, _, _)
StepN(m, st, dx, dy, n) ==
    IF n = 0 THEN st
    ELSE IF ~in_bounds(m, st.x + dx, st.y + dy)
    THEN [st EXCEPT !.result = "OutOfBounds"]
    ELSE StepN(m, [st EXCEPT !.x = st.x + dx, !.y = st.y + dy,
                             !.facing = DeltaName(dx, dy)], dx, dy, n - 1)

\* the outer loop of move_dirs
RECURSIVE Walk(_, _, _)
Walk(m, st, moves) ==
    IF moves = <<>> \/ st.result # "ok" THEN st
    ELSE LET delta == DirDelta(Lower(Head(moves)[1]))
         IN IF delta = <<0, 0>> THEN [st EXCEPT !.result = "VTTError"]
            ELSE Walk(m, StepN(m, st, delta[1], delta[2], Max(1, Head(moves)[2])),
                      Tail(moves))

\* a move_dirs that moves the entity before it looks at the final cell
move_dirs_moves_before_occupancy_check(m, id, moves) ==
    LET e == m.entities[id]
        st == Walk(m, [x |-> e.x, y |-> e.y, facing |-> e.facing, result |-> "ok"],
                   moves)
        moved == [m EXCEPT !.entities[id].facing = st.facing,
                           !.entities[id].x = st.x, !.entities[id].y = st.y]
    IN IF st.result # "ok"
       THEN [result |-> st.result,
             match |-> [m EXCEPT !.entities[id].facing = st.facing]]
       ELSE IF is_occupied(m, st.x, st.y, Some(id))
       THEN [result |-> "Occupied", match |-> moved]
       ELSE [result |-> "ok", match |-> moved]

\* self.facing is assigned step by step; the position only by move_to
move_dirs(m, id, moves) ==
    LET e == m.entities[id]
        st == Walk(m, [x |-> e.x, y |-> e.y, facing |-> e.facing, result |-> "ok"],
                   moves)
        turned == [m EXCEPT !.entities[id].facing = st.facing]
    IN IF st.result # "ok" THEN [result |-> st.result, match |-> turned]
       ELSE IF is_occupied(m, st.x, st.y, Some(id))
       THEN [result |-> "Occupied", match |-> turned]
       ELSE [result |-> "ok",
             match |-> [turned EXCEPT !.entities[id].x = st.x,
                                      !.entities[id].y = st.y]]

\* a damage_entity that never rebuilds the turn order
damage_entity_without_rebuild(m, id, amount) ==
    [m EXCEPT !.entities[id] = take_damage(@, amount)]

damage_entity(m, id, amount) ==
    LET was_alive == is_alive(m.entities[id])
        m1 == [m EXCEPT !.entities[id] = take_damage(@, amount)]
    IN IF was_alive /\ ~is_alive(m1.entities[id])
       THEN _rebuild_turn_order(m1) ELSE m1

heal_entity(m, id, amount) ==
    LET was_alive == is_alive(m.entities[id])
        m1 == [m EXCEPT !.entities[id] = heal(@, amount)]
    IN IF ~was_alive /\ is_alive(m1.entities[id])
       THEN _rebuild_turn_order(m1) ELSE m1

set_initiative_entity(m, id, value) ==
    _rebuild_turn_order([m EXCEPT !.entities[id].initiative = Some(value)])

\* vtt_commands.py, ent rename: the name is set and the order rebuilt
ent_rename(m, id, new_name) ==
    _rebuild_turn_order([m EXCEPT !.entities[id].name = new_name])

\* vtt_commands.py, turn set: the entity must be in the turn order
turn_set(m, id) ==
    IF ~InSeq(m.turn_order, id) THEN [result |-> "NotFound", match |-> m]
    ELSE [result |-> "ok",
          match |-> [m EXCEPT !.active_index = IndexOf(m.turn_order, id)]]

\* ------------------------------------------------------------------------
\* Serialization
\* ------------------------------------------------------------------------
\* Entity.to_dict: asdict(self) descends into every dataclass field, the
\* back-reference included, before "_match" is popped.  A bound entity's
\* match holds the entity again, so the descent never ends and Python raises
\* RecursionError; an entity without a match gives its persisted fields.
Entity_to_dict(e, is_bound) ==
    IF is_bound THEN [result |-> "RecursionError", data |-> None]
    ELSE [result |-> "ok", data |-> e]

\* a from_dict that keeps the facing text of the file
from_dict_keeps_facing(d) == d

\* Entity.from_dict: Entity(**d) followed by __post_init__
Entity_from_dict(d) ==
    [d EXCEPT !.facing = IF d.facing \in ALLOWED_DIRECTIONS THEN d.facing ELSE "up"]

\* Match.to_dict: every entity of a match is bound to it
Match_to_dict(m) ==
    IF \E id \in DOMAIN m.entities :
          Entity_to_dict(m.entities[id], TRUE).result # "ok"
    THEN [result |-> "RecursionError", data |-> None]
    ELSE [result |-> "ok",
          data |-> [grid_width |-> m.grid_width, grid_height |-> m.grid_height,
                    entities |-> [id \in DOMAIN m.entities |->
                                     Entity_to_dict(m.entities[id], FALSE).data],
                    turn_order |-> m.turn_order, active_index |-> m.active_index,
                    system_name |-> m.system_name, rules |-> m.rules,
                    turn_number |-> m.turn_number]]

\* Match.from_dict: d["grid_width"] and d["grid_height"] are required keys;
\* every entity is rebuilt and bound, which recomputes its facing
Match_from_dict(d) ==
    IF ~({"grid_width", "grid_height"} \subseteq DOMAIN d)
    THEN [result |-> "KeyError", match |-> None]
    ELSE LET m0 == NewMatch(d.grid_width, d.grid_height, d.system_name, d.rules)
         IN [result |-> "ok",
             match |-> [m0 EXCEPT
                          !.entities = [id \in DOMAIN d.entities |->
                                           bind(Entity_from_dict(d.entities[id]), m0)],
                          !.turn_order = d.turn_order,
                          !.active_index = d.active_index,
                          !.turn_number = d.turn_number]]

\* Match.render_ascii: per cell, "." or the arrow of the living entity there.
\* Two living entities on one cell are drawn in dict order, which the entity
\* map of the model does not keep: the cell then holds both arrows.
Arrow(facing) ==
    IF facing = "up" THEN "^" ELSE IF facing = "down" THEN "v"
    ELSE IF facing = "left" THEN "<" ELSE IF facing = "right" THEN ">" ELSE "@"

render_ascii(m) ==
    [cell \in (1..m.grid_width) \X (1..m.grid_height) |->
        LET here == {id \in DOMAIN m.entities :
                        /\ is_alive(m.entities[id])
                        /\ m.entities[id].x = cell[1]
                        /\ m.entities[id].y = cell[2]}
        IN IF here = {} THEN {"."} ELSE {Arrow(m.entities[id].facing) : id \in here}]

\* ------------------------------------------------------------------------
\* GameSystem and MatchManager
\* ------------------------------------------------------------------------
\* dict(a) followed by .update(b)
Update(a, b) ==
    [k \in DOMAIN a \cup DOMAIN b |-> IF k \in DOMAIN b THEN b[k] ELSE a[k]]

GameSystem(name, settings) == [name |-> name, settings |-> settings]

\* channel_key.split(":", 1)[0]
ServerOf(channel_key) ==
    IF channel_key = "g1:c1" \/ channel_key = "g1:c2" THEN "g1" ELSE channel_key

VARIABLES
    matches,                     \* MatchManager.matches: match id -> Match
    active_by_channel,           \* channel key -> match id
    systems,                     \* system name -> GameSystem
    default_system_name,
    default_system_per_server,   \* server id -> system name
    default_system_per_channel,  \* channel key -> system name
    last,                        \* the last call: operation, outcome, return value
    registry,                    \* the CommandRegistry: _handlers and _help
    tasks                        \* the handler coroutines the event loop holds

mgr == <<matches, active_by_channel, systems, default_system_name,
         default_system_per_server, default_system_per_channel>>
vars == <<matches, active_by_channel, systems, default_system_name,
          default_system_per_server, default_system_per_channel, last,
          registry, tasks>>

Call(op, result, ret) == [op |-> op, result |-> result, ret |-> ret]

\* MatchManager.__init__
Init ==
    /\ matches = EmptyMap
    /\ active_by_channel = EmptyMap
    /\ systems = [n \in {"default"} |-> GameSystem("default", DEFAULT_SYSTEM_SETTINGS)]
    /\ default_system_name = "default"
    /\ default_system_per_server = EmptyMap
    /\ default_system_per_channel = EmptyMap
    /\ last = Call("init", "ok", None)
    /\ registry = [_handlers |-> {}, _help |-> EmptyMap]
    /\ tasks = EmptyMap

effective_system_name(channel_key) ==
    IF channel_key \in DOMAIN default_system_per_channel
    THEN default_system_per_channel[channel_key]
    ELSE IF ServerOf(channel_key) \in DOMAIN default_system_per_server
    THEN default_system_per_server[ServerOf(channel_key)]
    ELSE default_system_name

\* channel_key and system_name are optional; the outcome and the new matches
create_match(match_id, width, height, channel_key, system_name) ==
    IF match_id \in DOMAIN matches
    THEN [result |-> "DuplicateId", matches |-> matches]
    ELSE LET chosen == IF Truthy(system_name) THEN system_name[1]
                       ELSE effective_system_name(
                                IF Truthy(channel_key) THEN channel_key[1] ELSE "CLI")
         IN IF chosen \notin DOMAIN systems
            THEN [result |-> "NotFound", matches |-> matches]
            ELSE [result |-> "ok",
                  matches |-> Put(matches, match_id,
                                  NewMatch(width, height, systems[chosen].name,
                                           Update(DEFAULT_SYSTEM_SETTINGS,
                                                  systems[chosen].settings)))]

\* a delete_match that leaves the channel bindings alone
delete_match_keeps_bindings(match_id) ==
    IF match_id \notin DOMAIN matches
    THEN [result |-> "NotFound", matches |-> matches, active |-> active_by_channel]
    ELSE [result |-> "ok", matches |-> Del(matches, match_id),
          active |-> active_by_channel]

\* the outcome and the new (matches, active_by_channel)
delete_match(match_id) ==
    IF match_id \notin DOMAIN matches
    THEN [result |-> "NotFound", matches |-> matches, active |-> active_by_channel]
    ELSE [result |-> "ok", matches |-> Del(matches, match_id),
          active |-> [ch \in {c \in DOMAIN active_by_channel :
                                 active_by_channel[c] # match_id} |->
                         active_by_channel[ch]]]

\* the document save() builds: the exception of a to_dict call, or the data
SaveData ==
    IF \E mid \in DOMAIN matches : Match_to_dict(matches[mid]).result # "ok"
    THEN [result |-> "RecursionError", data |-> None]
    ELSE [result |-> "ok",
          data |-> [matches |-> [mid \in DOMAIN matches |->
                                    Match_to_dict(matches[mid]).data],
                    active_by_channel |-> active_by_channel,
                    systems |-> systems,
                    default_system_name |-> default_system_name,
                    default_system_per_server |-> default_system_per_server,
                    default_system_per_channel |-> default_system_per_channel]]

\* the order in which a document's matches are listed
MatchOrder == <<"m1", "m2">>

\* a loop that re-points and re-binds but keeps the rules of the file
RECURSIVE rebind_keeps_file_rules(_, _, _, _)
rebind_keeps_file_rules(ms, syss, default_name, p) ==
    IF p > Len(MatchOrder) THEN [result |-> "ok", matches |-> ms]
    ELSE IF MatchOrder[p] \notin DOMAIN ms
    THEN rebind_keeps_file_rules(ms, syss, default_name, p + 1)
    ELSE LET mid == MatchOrder[p]
             m1 == IF ms[mid].system_name \notin DOMAIN syss
                   THEN [ms[mid] EXCEPT !.system_name = default_name] ELSE ms[mid]
         IN IF m1.system_name \notin DOMAIN syss
            THEN [result |-> "KeyError", matches |-> [ms EXCEPT ![mid] = m1]]
            ELSE rebind_keeps_file_rules([ms EXCEPT ![mid] = m1], syss,
                                         default_name, p + 1)

\* the loop of load() over the loaded matches, from position p of MatchOrder:
\* a match whose system is missing is re-pointed to the default system, its
\* rules are refreshed and its entities bound again; self.systems[...] raises
\* KeyError when the default system is missing too
RECURSIVE Rebind(_, _, _, _)
Rebind(ms, syss, default_name, p) ==
    IF p > Len(MatchOrder) THEN [result |-> "ok", matches |-> ms]
    ELSE IF MatchOrder[p] \notin DOMAIN ms THEN Rebind(ms, syss, default_name, p + 1)
    ELSE LET mid == MatchOrder[p]
             m1 == IF ms[mid].system_name \notin DOMAIN syss
                   THEN [ms[mid] EXCEPT !.system_name = default_name] ELSE ms[mid]
         IN IF m1.system_name \notin DOMAIN syss
            THEN [result |-> "KeyError", matches |-> [ms EXCEPT ![mid] = m1]]
            ELSE LET m2 == [m1 EXCEPT !.rules =
                               Update(DEFAULT_SYSTEM_SETTINGS,
                                      syss[m1.system_name].settings)]
                     m3 == [m2 EXCEPT !.entities =
                               [id \in DOMAIN m2.entities |-> bind(m2.entities[id], m2)]]
                 IN Rebind([ms EXCEPT ![mid] = m3], syss, default_name, p + 1)

\* the try block of load() on a decoded document: the manager state it leaves
\* and its outcome.  The fields are assigned one after the other, so an
\* exception keeps the assignments made before it.
load_document(data) ==
    LET before == [result |-> "ok", matches |-> matches, active |-> active_by_channel,
                   systems |-> systems, default_name |-> default_system_name,
                   per_server |-> default_system_per_server,
                   per_channel |-> default_system_per_channel]
    IN IF \E mid \in DOMAIN data.matches :
             Match_from_dict(data.matches[mid]).result # "ok"
       THEN [before EXCEPT !.result = "VTTError"]
       ELSE LET s1 == [before EXCEPT
                         !.matches = [mid \in DOMAIN data.matches |->
                                         Match_from_dict(data.matches[mid]).match],
                         !.active = data.active_by_channel]
            IN IF \E n \in DOMAIN data.systems : "name" \notin DOMAIN data.systems[n]
               THEN [s1 EXCEPT !.result = "VTTError"]
               ELSE LET s2 == [s1 EXCEPT
                                 !.systems = [n \in DOMAIN data.systems |->
                                                 GameSystem(data.systems[n].name,
                                                            data.systems[n].settings)],
                                 !.default_name = data.default_system_name,
                                 !.per_server = data.default_system_per_server,
                                 !.per_channel = data.default_system_per_channel]
                        r == Rebind(s2.matches, s2.systems, s2.default_name, 1)
                    IN [s2 EXCEPT !.matches = r.matches,
                                  !.result = IF r.result = "ok" THEN "ok" ELSE "VTTError"]

\* ------------------------------------------------------------------------
\* Operations on one match and its entities
\* ------------------------------------------------------------------------
\* a SetMatch under which entities with the same id are one object, shared
\* by the matches that hold the id
set_match_shares_entities(mid, m, call) ==
    /\ matches' = [k \in DOMAIN matches |->
                      IF k = mid THEN m
                      ELSE [matches[k] EXCEPT
                              !.entities = [id \in DOMAIN @ |->
                                               IF id \in DOMAIN m.entities
                                               THEN m.entities[id] ELSE @[id]]]]
    /\ last' = call
    /\ UNCHANGED <<active_by_channel, systems, default_system_name,
                   default_system_per_server, default_system_per_channel,
                   registry, tasks>>

SetMatch(mid, m, call) ==
    /\ matches' = [matches EXCEPT ![mid] = m]
    /\ last' = call
    /\ UNCHANGED <<active_by_channel, systems, default_system_name,
                   default_system_per_server, default_system_per_channel, registry, tasks>>

CreateMatch(match_id, width, height, channel_key, system_name) ==
    LET r == create_match(match_id, width, height, channel_key, system_name)
    IN /\ matches' = r.matches
       /\ last' = Call("create_match", r.result, None)
       /\ UNCHANGED <<active_by_channel, systems, default_system_name,
                      default_system_per_server, default_system_per_channel, registry, tasks>>

\* ent add: a new Entity(id, name, hp, x, y) spawns at (x, y)
Spawn(mid, id, name, hp, x, y, initiative) ==
    LET r == spawn(NewEntity(id, name, hp, x, y), FALSE, matches[mid], x, y,
                   initiative)
    IN SetMatch(mid, r.match, Call("spawn", r.result, None))

Remove(mid, id) ==
    SetMatch(mid, remove(matches[mid], id), Call("remove", "ok", None))

Tp(mid, id, x, y) ==
    LET r == tp(matches[mid], id, x, y)
    IN SetMatch(mid, r.match, Call("tp", r.result, None))

MoveDirs(mid, id, moves) ==
    LET r == move_dirs(matches[mid], id, moves)
    IN SetMatch(mid, r.match, Call("move_dirs", r.result, None))

Damage(mid, id, amount) ==
    /\ matches[mid].entities[id].hp - Max(0, amount) >= -MaxOverkill
    /\ SetMatch(mid, damage_entity(matches[mid], id, amount),
                Call("damage", "ok", None))

Heal(mid, id, amount) ==
    SetMatch(mid, heal_entity(matches[mid], id, amount),
             Call("heal", "ok", None))

SetInitiative(mid, id, value) ==
    SetMatch(mid, set_initiative_entity(matches[mid], id, value),
             Call("set_initiative", "ok", None))

Rename(mid, id, new_name) ==
    SetMatch(mid, ent_rename(matches[mid], id, new_name),
             Call("rename", "ok", None))

NextTurn(mid) ==
    LET r == next_turn(matches[mid])
    IN /\ r.match.turn_number <= MaxRound
       /\ SetMatch(mid, r.match, Call("next_turn", "ok", r.ret))

TurnSet(mid, id) ==
    LET r == turn_set(matches[mid], id)
    IN SetMatch(mid, r.match, Call("turn_set", r.result, None))

\* ------------------------------------------------------------------------
\* The arguments the operations are called with
\* ------------------------------------------------------------------------
Xs == 0..(GridW + 1)
Ys == 1..GridH
Hps == 1..MaxHp
Amounts == (-1)..MaxAmount
Initiatives == 1..MaxInit
OptInitiatives == {None} \cup {Some(v) : v \in Initiatives}
Directions == {"up", "down", "left", "right"}
Moves == Directions \X (0..MaxCount)
MoveLists ==
    {<<mv>> : mv \in Moves}
        \cup {<<<<d1, 1>>, <<d2, 1>>>> : d1 \in Directions, d2 \in Directions}

\* ------------------------------------------------------------------------
\* SpecTurn: the turn order of one match.  Every entity is spawned on a cell
\* of its own, and nothing moves.
\* ------------------------------------------------------------------------
TurnCell(id) == IF id = "" THEN 1 ELSE IF id = "a" THEN 2 ELSE 3

NextT ==
    \/ CreateMatch("m1", GridW, GridH, None, None)
    \/ \E mid \in DOMAIN matches, id \in EntityIds, name \in EntityNames,
          hp \in Hps, initiative \in OptInitiatives :
            Spawn(mid, id, name, hp, TurnCell(id), 1, initiative)
    \/ \E mid \in DOMAIN matches : NextTurn(mid)
    \/ \E mid \in DOMAIN matches : \E id \in DOMAIN matches[mid].entities :
            Remove(mid, id)
    \/ \E mid \in DOMAIN matches : \E id \in DOMAIN matches[mid].entities :
            \E amount \in Amounts : Damage(mid, id, amount)
    \/ \E mid \in DOMAIN matches : \E id \in DOMAIN matches[mid].entities :
            \E amount \in Amounts : Heal(mid, id, amount)
    \/ \E mid \in DOMAIN matches : \E id \in DOMAIN matches[mid].entities :
            \E value \in Initiatives : SetInitiative(mid, id, value)
    \/ \E mid \in DOMAIN matches : \E id \in DOMAIN matches[mid].entities :
            \E new_name \in EntityNames : Rename(mid, id, new_name)
    \/ \E mid \in DOMAIN matches : \E id \in DOMAIN matches[mid].entities :
            TurnSet(mid, id)

SpecTurn == Init /\ [][NextT]_vars

\* ------------------------------------------------------------------------
\* SpecGrid: positions and facings on the grid of one match, two entities
\* with one name and one initiative value.
\* ------------------------------------------------------------------------
GridIds == {"", "a"}
GridOptInitiatives == {None, Some(1)}

NextG ==
    \/ CreateMatch("m1", GridW, GridH, None, None)
    \/ \E mid \in DOMAIN matches, id \in GridIds, hp \in Hps, x \in Xs,
          y \in Ys, initiative \in GridOptInitiatives :
            Spawn(mid, id, "Orc", hp, x, y, initiative)
    \/ \E mid \in DOMAIN matches : NextTurn(mid)
    \/ \E mid \in DOMAIN matches : \E id \in DOMAIN matches[mid].entities :
            Remove(mid, id)
    \/ \E mid \in DOMAIN matches : \E id \in DOMAIN matches[mid].entities :
            \E x \in Xs, y \in Ys : Tp(mid, id, x, y)
    \/ \E mid \in DOMAIN matches : \E id \in DOMAIN matches[mid].entities :
            \E moves \in MoveLists : MoveDirs(mid, id, moves)
    \/ \E mid \in DOMAIN matches : \E id \in DOMAIN matches[mid].entities :
            \E amount \in Amounts : Damage(mid, id, amount)
    \/ \E mid \in DOMAIN matches : \E id \in DOMAIN matches[mid].entities :
            \E amount \in Amounts : Heal(mid, id, amount)
    \/ \E mid \in DOMAIN matches : \E id \in DOMAIN matches[mid].entities :
            SetInitiative(mid, id, 1)
    \/ \E mid \in DOMAIN matches : \E id \in DOMAIN matches[mid].entities :
            TurnSet(mid, id)

SpecGrid == Init /\ [][NextG]_vars

\* ------------------------------------------------------------------------
\* Operations of the manager
\* ------------------------------------------------------------------------
DeleteMatch(match_id) ==
    LET r == delete_match(match_id)
    IN /\ matches' = r.matches
       /\ active_by_channel' = r.active
       /\ last' = Call("delete_match", r.result, None)
       /\ UNCHANGED <<systems, default_system_name, default_system_per_server,
                      default_system_per_channel, registry, tasks>>

\* set_active_for_channel: the outcome and the new active_by_channel
set_active_for_channel(channel_key, match_id) ==
    IF match_id \notin DOMAIN matches
    THEN [result |-> "NotFound", active |-> active_by_channel]
    ELSE [result |-> "ok", active |-> Put(active_by_channel, channel_key, match_id)]

SetActiveForChannel(channel_key, match_id) ==
    LET r == set_active_for_channel(channel_key, match_id)
    IN /\ last' = Call("set_active_for_channel", r.result, None)
       /\ active_by_channel' = r.active
       /\ UNCHANGED <<matches, systems, default_system_name,
                      default_system_per_server, default_system_per_channel, registry, tasks>>

CreateSystem(name) ==
    /\ IF name \in DOMAIN systems
       THEN /\ last' = Call("create_system", "DuplicateId", None)
            /\ UNCHANGED systems
       ELSE /\ last' = Call("create_system", "ok", None)
            /\ systems' = Put(systems, name, GameSystem(name, EmptyMap))
    /\ UNCHANGED <<matches, active_by_channel, default_system_name,
                   default_system_per_server, default_system_per_channel, registry, tasks>>

SetGlobalDefaultSystem(name) ==
    /\ IF name \notin DOMAIN systems
       THEN /\ last' = Call("set_global_default_system", "NotFound", None)
            /\ UNCHANGED default_system_name
       ELSE /\ last' = Call("set_global_default_system", "ok", None)
            /\ default_system_name' = name
    /\ UNCHANGED <<matches, active_by_channel, systems, default_system_per_server,
                   default_system_per_channel, registry, tasks>>

\* system set: GameSystem.set(key, value) on the system called name
GameSystem_set(sys, key, value) ==
    [sys EXCEPT !.settings = Put(sys.settings, key, value)]

\* logic.py: RULE_SCHEMA
RULE_SCHEMA ==
    [spawn_face_toward_center |-> [type |-> "bool", choices |-> {}],
     spawn_default_facing |-> [type |-> "enum", choices |-> ALLOWED_DIRECTIONS]]

\* _parse_bool: the tokens are given without surrounding blanks
_parse_bool(token) ==
    IF Lower(token) \in {"true", "t"} THEN [result |-> "ok", value |-> TRUE]
    ELSE IF Lower(token) \in {"false", "f"} THEN [result |-> "ok", value |-> FALSE]
    ELSE [result |-> "VTTError", value |-> "Expected a boolean: use true or false"]

\* _coerce_rule_value: the value to store, or VTTError with its message
_coerce_rule_value(key, raw_value) ==
    IF key \notin DOMAIN RULE_SCHEMA
    THEN [result |-> "VTTError", value |-> "Unknown setting. Allowed: the schema keys"]
    ELSE IF RULE_SCHEMA[key].type = "bool" THEN _parse_bool(raw_value)
    ELSE IF Lower(raw_value) \in RULE_SCHEMA[key].choices
    THEN [result |-> "ok", value |-> Lower(raw_value)]
    ELSE [result |-> "VTTError", value |-> "must be one of: down, left, right, up"]

\* a system set that writes the value through to the matches created under
\* the system, as it would if a match held the system's own settings dict
system_set_writes_through(name, key, raw_value) ==
    LET c == _coerce_rule_value(key, raw_value)
    IN IF c.result = "ok" /\ name \in DOMAIN systems
       THEN /\ last' = Call("system_set", "ok", None)
            /\ systems' = [systems EXCEPT ![name] = GameSystem_set(@, key, c.value)]
            /\ matches' = [mid \in DOMAIN matches |->
                              IF matches[mid].system_name = name
                              THEN [matches[mid] EXCEPT !.rules[key] = c.value]
                              ELSE matches[mid]]
            /\ UNCHANGED <<active_by_channel, default_system_name,
                           default_system_per_server, default_system_per_channel, registry, tasks>>
       ELSE /\ last' = Call("system_set", c.result, None)
            /\ UNCHANGED <<mgr, registry, tasks>>

\* system set <name> <key> <value>: the value is coerced before the system
\* is looked up; last.ret holds the message of a failure
SystemSet(name, key, raw_value) ==
    LET c == _coerce_rule_value(key, raw_value)
    IN /\ IF c.result # "ok"
          THEN /\ last' = Call("system_set", c.result, Some(c.value))
               /\ UNCHANGED systems
          ELSE IF key \notin DOMAIN DEFAULT_SYSTEM_SETTINGS
          THEN /\ last' = Call("system_set", "VTTError",
                               Some("not in engine defaults"))
               /\ UNCHANGED systems
          ELSE IF name \notin DOMAIN systems
          THEN /\ last' = Call("system_set", "NotFound", None)
               /\ UNCHANGED systems
          ELSE /\ last' = Call("system_set", "ok", None)
               /\ systems' = [systems EXCEPT
                                ![name] = GameSystem_set(@, key, c.value)]
       /\ UNCHANGED <<matches, active_by_channel, default_system_name,
                      default_system_per_server, default_system_per_channel, registry, tasks>>

\* set_server_default_system / set_channel_default_system
SetServerDefaultSystem(server_id, name) ==
    /\ IF name \notin DOMAIN systems
       THEN /\ last' = Call("set_server_default_system", "NotFound", None)
            /\ UNCHANGED default_system_per_server
       ELSE /\ last' = Call("set_server_default_system", "ok", None)
            /\ default_system_per_server' =
                   Put(default_system_per_server, server_id, name)
    /\ UNCHANGED <<matches, active_by_channel, systems, default_system_name,
                   default_system_per_channel, registry, tasks>>

SetChannelDefaultSystem(channel_key, name) ==
    /\ IF name \notin DOMAIN systems
       THEN /\ last' = Call("set_channel_default_system", "NotFound", None)
            /\ UNCHANGED default_system_per_channel
       ELSE /\ last' = Call("set_channel_default_system", "ok", None)
            /\ default_system_per_channel' =
                   Put(default_system_per_channel, channel_key, name)
    /\ UNCHANGED <<matches, active_by_channel, systems, default_system_name,
                   default_system_per_server, registry, tasks>>

\* save(path): the document is built outside the try block; inside it only
\* OSError and TypeError become VTTError.  write_ok: whether the file can be
\* opened and written.  The file is no state of the manager: what a later
\* load finds in it is that load's argument.
Save(write_ok) ==
    /\ last' = Call("save",
                    IF SaveData.result # "ok" THEN SaveData.result
                    ELSE IF ~write_ok THEN "VTTError" ELSE "ok",
                    None)
    /\ UNCHANGED <<mgr, registry, tasks>>

\* load(path) of a path that does not exist, or whose text is not JSON
LoadUnreadable(why) ==
    /\ last' = Call("load", "VTTError", Some(why))
    /\ UNCHANGED <<mgr, registry, tasks>>

\* load(path) of a file holding the JSON document data
Load(data) ==
    LET r == load_document(data)
    IN /\ matches' = r.matches
       /\ active_by_channel' = r.active
       /\ systems' = r.systems
       /\ default_system_name' = r.default_name
       /\ default_system_per_server' = r.per_server
       /\ default_system_per_channel' = r.per_channel
       /\ last' = Call("load", r.result,
                       IF r.result = "ok" THEN None ELSE Some("Invalid save file format"))
       /\ UNCHANGED <<registry, tasks>>

\* ------------------------------------------------------------------------
\* SpecMgr: the manager with its matches, systems, bindings and save file.
\* ------------------------------------------------------------------------
SystemNames == {"default", "s1"}

\* documents a save file can hold
DocMatchDicts ==
    {[grid_width |-> GridW, grid_height |-> GridH, system_name |-> sn,
      rules |-> DEFAULT_SYSTEM_SETTINGS, turn_number |-> 1, active_index |-> 0,
      turn_order |-> IF with_entity THEN <<"a">> ELSE <<>>,
      entities |-> IF with_entity
                   THEN [id \in {"a"} |->
                            [id |-> "a", name |-> "Orc", hp |-> 1, max_hp |-> 1,
                             x |-> 1, y |-> 1, initiative |-> Some(1),
                             facing |-> "left"]]
                   ELSE EmptyMap] :
        sn \in SystemNames, with_entity \in BOOLEAN}
        \cup {[grid_width |-> GridW]}

DocSystems ==
    {[n \in {"default"} |-> [name |-> "default", settings |-> DEFAULT_SYSTEM_SETTINGS]],
     [n \in {"default"} |-> [settings |-> DEFAULT_SYSTEM_SETTINGS]],
     [n \in {"s1"} |->
         [name |-> "s1",
          settings |-> [spawn_face_toward_center |-> FALSE,
                        spawn_default_facing |-> "left"]]]}

Docs ==
    {[matches |-> ms, active_by_channel |-> EmptyMap, systems |-> ss,
      default_system_name |-> dn, default_system_per_server |-> EmptyMap,
      default_system_per_channel |-> EmptyMap] :
        ms \in {EmptyMap} \cup {[mid \in {"m1"} |-> d] : d \in DocMatchDicts},
        ss \in DocSystems, dn \in SystemNames}

NextM ==
    \/ \E match_id \in MatchIds, system_name \in {None} \cup {Some(n) : n \in SystemNames} :
            CreateMatch(match_id, GridW, GridH, Some("CLI"), system_name)
    \/ \E match_id \in MatchIds : DeleteMatch(match_id)
    \/ \E match_id \in MatchIds : SetActiveForChannel("CLI", match_id)
    \/ \E name \in SystemNames : CreateSystem(name)
    \/ \E name \in SystemNames : SetGlobalDefaultSystem(name)
    \/ \E mid \in DOMAIN matches : Spawn(mid, "a", "Orc", 1, 1, 1, Some(1))
    \/ \E write_ok \in BOOLEAN : Save(write_ok)
    \/ \E why \in {"File not found", "Failed to load"} : LoadUnreadable(why)
    \/ \E data \in Docs : Load(data)

SpecMgr == Init /\ [][NextM]_vars

\* ------------------------------------------------------------------------
\* Commands: the registry, the handlers of match, ent, turn and store, and
\* the messages they send through the reply context.  A handler's outcome is
\* "ok" or the name of the exception it raises, with the manager as it leaves
\* it and the messages it sent.
\* ------------------------------------------------------------------------
\* int(token): None stands for ValueError
IntTokens == <<"0", "1", "2", "3", "4">>
int(token) ==
    IF \E i \in 1..Len(IntTokens) : IntTokens[i] = token
    THEN Some((CHOOSE i \in 1..Len(IntTokens) : IntTokens[i] = token) - 1)
    ELSE None

\* VTTError and its subclasses
DomainErrors == {"VTTError", "OutOfBounds", "Occupied", "NotFound", "DuplicateId"}

Outcome(result, ms, act, sent) ==
    [result |-> result, matches |-> ms, active |-> act, sent |-> sent]

Raises(exception) == Outcome(exception, matches, active_by_channel, <<>>)
Sends(kind, text) == Outcome("ok", matches, active_by_channel, <<<<kind, text>>>>)

\* active_match(mgr, ctx)
active_match(channel_key) ==
    IF channel_key \notin DOMAIN active_by_channel
    THEN [result |-> "NotFound", mid |-> None]
    ELSE IF ~Truthy(Some(active_by_channel[channel_key]))
    THEN [result |-> "NotFound", mid |-> None]
    ELSE IF active_by_channel[channel_key] \notin DOMAIN matches
    THEN [result |-> "NotFound", mid |-> None]
    ELSE [result |-> "ok", mid |-> Some(active_by_channel[channel_key])]

_resolve_eid(m, token) ==
    IF Lower(token) \in {"current", "this"}
    THEN IF Truthy(current_entity_id(m))
         THEN [result |-> "ok", eid |-> current_entity_id(m)]
         ELSE [result |-> "NotFound", eid |-> None]
    ELSE [result |-> "ok", eid |-> Some(token)]

\* match (no arguments), match new, match use
match_cmd(args, channel_key) ==
    IF args = <<>> THEN Sends("reply", "matches")
    ELSE IF args[1] = "new"
    THEN IF Len(args) < 5 THEN Sends("help", "match new")
         ELSE IF int(args[4]) = None \/ int(args[5]) = None THEN Raises("ValueError")
         ELSE LET r == create_match(args[2], int(args[4])[1], int(args[5])[1],
                                    Some(channel_key), None)
              IN IF r.result # "ok" THEN Raises(r.result)
                 ELSE Outcome("ok", r.matches, active_by_channel,
                              <<<<"reply", "created">>>>)
    ELSE IF args[1] = "use"
    THEN IF Len(args) < 2 THEN Sends("help", "match use")
         ELSE IF args[2] \notin DOMAIN matches THEN Raises("NotFound")
         ELSE Outcome("ok", matches, Put(active_by_channel, channel_key, args[2]),
                      <<<<"reply", "active">>>>)
    ELSE Sends("help", "match")

\* ent add
ent_add(mid, args) ==
    IF Len(args) < 6 THEN Sends("help", "ent add")
    ELSE IF \/ \E i \in 4..6 : int(args[i]) = None
            \/ Len(args) >= 7 /\ int(args[7]) = None
    THEN Raises("ValueError")
    ELSE LET x == int(args[5])[1]
             y == int(args[6])[1]
             r == spawn(NewEntity(args[2], args[3], int(args[4])[1], x, y), FALSE,
                        matches[mid], x, y,
                        IF Len(args) >= 7 THEN int(args[7]) ELSE None)
         IN IF r.result # "ok" THEN Raises(r.result)
            ELSE Outcome("ok", [matches EXCEPT ![mid] = r.match], active_by_channel,
                         <<<<"reply", "added">>>>)

\* ent info: e.vars is no attribute of Entity
ent_info(mid, args) ==
    IF Len(args) < 2 THEN Sends("help", "ent info")
    ELSE LET t == _resolve_eid(matches[mid], args[2])
         IN IF t.result # "ok" THEN Raises(t.result)
            ELSE IF t.eid[1] \notin DOMAIN matches[mid].entities
            THEN Raises("NotFound")
            ELSE Raises("AttributeError")

\* ent tp
ent_tp(mid, args) ==
    IF Len(args) < 4 THEN Sends("help", "ent tp")
    ELSE LET t == _resolve_eid(matches[mid], args[2])
         IN IF t.result # "ok" THEN Raises(t.result)
            ELSE IF t.eid[1] \notin DOMAIN matches[mid].entities
            THEN Raises("NotFound")
            ELSE IF int(args[3]) = None \/ int(args[4]) = None
            THEN Raises("ValueError")
            ELSE LET r == tp(matches[mid], t.eid[1], int(args[3])[1],
                             int(args[4])[1])
                 IN IF r.result # "ok" THEN Raises(r.result)
                    ELSE Outcome("ok", [matches EXCEPT ![mid] = r.match],
                                 active_by_channel, <<<<"reply", "teleported">>>>)

\* the aliases of ent face: mapping.get(dir_, dir_)
DirAlias(d) ==
    IF d = "u" THEN "up" ELSE IF d = "d" THEN "down"
    ELSE IF d = "l" THEN "left" ELSE IF d = "r" THEN "right" ELSE d

\* ent face: a token that names no direction is answered with a usage line
ent_face(mid, args) ==
    IF Len(args) < 3 THEN Sends("help", "ent face")
    ELSE LET t == _resolve_eid(matches[mid], args[2])
         IN IF t.result # "ok" THEN Raises(t.result)
            ELSE IF t.eid[1] \notin DOMAIN matches[mid].entities
            THEN Raises("NotFound")
            ELSE LET dir_full == DirAlias(Lower(args[3]))
                 IN IF dir_full \notin {"up", "down", "left", "right"}
                    THEN Sends("reply", "Use: up/down/left/right")
                    ELSE Outcome("ok",
                                 [matches EXCEPT
                                    ![mid].entities[t.eid[1]].facing = dir_full],
                                 active_by_channel, <<<<"reply", "facing set">>>>)

\* ent clone: the payload is src.to_dict() of an entity bound to the match
ent_clone(mid, args) ==
    IF Len(args) < 5 THEN Sends("help", "ent clone")
    ELSE LET m == matches[mid]
             t == _resolve_eid(m, args[2])
         IN IF t.result # "ok" THEN Raises(t.result)
            ELSE IF int(args[4]) = None \/ int(args[5]) = None
            THEN Raises("ValueError")
            ELSE IF t.eid[1] \notin DOMAIN m.entities THEN Raises("NotFound")
            ELSE IF args[3] \in DOMAIN m.entities THEN Raises("DuplicateId")
            ELSE IF ~in_bounds(m, int(args[4])[1], int(args[5])[1])
            THEN Raises("OutOfBounds")
            ELSE IF is_occupied(m, int(args[4])[1], int(args[5])[1], None)
            THEN Raises("Occupied")
            ELSE LET src == m.entities[t.eid[1]]
                     x == int(args[4])[1]
                     y == int(args[5])[1]
                     payload == Entity_to_dict(src, TRUE)
                 IN IF payload.result # "ok" THEN Raises(payload.result)
                    ELSE LET clone == Entity_from_dict(
                                          [payload.data EXCEPT !.id = args[3],
                                                               !.x = x, !.y = y])
                             r == spawn(clone, FALSE, m, x, y, src.initiative)
                         IN IF r.result # "ok" THEN Raises(r.result)
                            ELSE Outcome("ok",
                                         [matches EXCEPT ![mid] =
                                            [r.match EXCEPT
                                               !.entities[args[3]].facing = src.facing]],
                                         active_by_channel,
                                         <<<<"reply", "cloned">>>>)

ent_cmd(args, channel_key) ==
    IF args = <<>> THEN Sends("help", "ent")
    ELSE LET am == active_match(channel_key)
         IN IF am.result # "ok" THEN Raises(am.result)
            ELSE IF Lower(args[1]) = "add" THEN ent_add(am.mid[1], args)
            ELSE IF Lower(args[1]) = "info" THEN ent_info(am.mid[1], args)
            ELSE IF Lower(args[1]) = "tp" THEN ent_tp(am.mid[1], args)
            ELSE Sends("help", "ent")

\* turn (no arguments), turn next
turn_cmd(args, channel_key) ==
    LET am == active_match(channel_key)
    IN IF am.result # "ok" THEN Raises(am.result)
       ELSE IF args = <<>> THEN Sends("reply", "turn order")
       ELSE IF Lower(args[1]) = "next"
       THEN LET r == next_turn(matches[am.mid[1]])
            IN Outcome("ok", [matches EXCEPT ![am.mid[1]] = r.match],
                       active_by_channel,
                       IF Truthy(r.ret) THEN <<<<"reply", "now">>>>
                       ELSE <<<<"reply", "no turn order">>>>)
       ELSE Sends("help", "turn")

\* store save <path>: the path "/" cannot be opened for writing
store_cmd(args, channel_key) ==
    IF args = <<>> THEN Sends("help", "store")
    ELSE IF Lower(args[1]) = "save"
    THEN IF Len(args) < 2 THEN Sends("help", "store save")
         ELSE IF SaveData.result # "ok" THEN Raises(SaveData.result)
         ELSE IF args[2] = "/" THEN Raises("VTTError")
         ELSE Sends("reply", "saved")
    ELSE Sends("help", "store")

\* the handlers of the registry that are modelled
_handlers == {"match", "ent", "turn", "store"}

\* h(ctx, args, mgr) for the handler registered under name
handler(name, args, channel_key) ==
    IF name = "match" THEN match_cmd(args, channel_key)
    ELSE IF name = "ent" THEN ent_cmd(args, channel_key)
    ELSE IF name = "turn" THEN turn_cmd(args, channel_key)
    ELSE store_cmd(args, channel_key)

\* a run that catches domain errors only
run_without_generic_except(name, args, channel_key) ==
    IF name \notin _handlers
    THEN [outcome |-> "returned", matches |-> matches, active |-> active_by_channel,
          sent |-> <<<<"unknown", name>>>>]
    ELSE LET h == handler(name, args, channel_key)
         IN IF h.result \in DomainErrors
            THEN [outcome |-> "returned", matches |-> h.matches,
                  active |-> h.active, sent |-> h.sent \o <<<<"error", h.result>>>>]
            ELSE [outcome |-> IF h.result = "ok" THEN "returned" ELSE h.result,
                  matches |-> h.matches, active |-> h.active, sent |-> h.sent]

\* a run that looks the handler up with self._handlers[name]
run_indexes_handlers(name, args, channel_key) ==
    IF name \notin _handlers
    THEN [outcome |-> "KeyError", matches |-> matches, active |-> active_by_channel,
          sent |-> <<>>]
    ELSE LET h == handler(name, args, channel_key)
         IN [outcome |-> "returned", matches |-> h.matches, active |-> h.active,
             sent |-> IF h.result = "ok" THEN h.sent
                      ELSE IF h.result \in DomainErrors
                      THEN h.sent \o <<<<"error", h.result>>>>
                      ELSE h.sent \o <<<<"unexpected", h.result>>>>]

\* CommandRegistry.run: outcome is "returned", or the exception that escapes
run(name, args, channel_key) ==
    IF name \notin _handlers
    THEN [outcome |-> "returned", matches |-> matches, active |-> active_by_channel,
          sent |-> <<<<"unknown", name>>>>]
    ELSE LET h == handler(name, args, channel_key)
         IN IF h.result = "ok"
            THEN [outcome |-> "returned", matches |-> h.matches,
                  active |-> h.active, sent |-> h.sent]
            ELSE IF h.result \in DomainErrors
            THEN [outcome |-> "returned", matches |-> h.matches,
                  active |-> h.active, sent |-> h.sent \o <<<<"error", h.result>>>>]
            ELSE [outcome |-> "returned", matches |-> h.matches,
                  active |-> h.active,
                  sent |-> h.sent \o <<<<"unexpected", h.result>>>>]

\* one command line of the CLI: registry.run(root, args, ctx, mgr)
Run(name, args) ==
    LET r == run(name, args, "CLI")
    IN /\ matches' = r.matches
       /\ active_by_channel' = r.active
       /\ last' = Call("run", r.outcome, r.sent)
       /\ UNCHANGED <<systems, default_system_name, default_system_per_server,
                      default_system_per_channel, registry, tasks>>

\* ------------------------------------------------------------------------
\* SpecCmd: command lines typed at the CLI
\* ------------------------------------------------------------------------
MatchArgs ==
    { <<>>, <<"new", "m1", "n", "3", "1">>, <<"new", "m1", "n", "x", "1">>,
      <<"new", "m1">>, <<"use", "m1">>, <<"use", "m2">> }
EntArgs ==
    { <<>>, <<"add", "a">>,
      <<"add", "a", "Orc", "1", "1", "1">>,
      <<"add", "a", "Orc", "1", "2", "1", "2">>,
      <<"add", "b", "Orc", "1", "1", "1", "1">>,
      <<"add", "b", "Orc", "1", "4", "1">>,
      <<"add", "", "ant", "1", "3", "1", "1">>,
      <<"add", "b", "Orc", "x", "1", "1">>,
      <<"info", "a">>, <<"info", "this">>,
      <<"tp", "a", "1", "1">>, <<"tp", "a", "2", "1">>,
      <<"tp", "b", "0", "1">>, <<"tp", "b", "2", "y">>,
      <<"tp", "this", "3", "1">> }
TurnArgs == { <<>>, <<"next">> }
StoreArgs == { <<>>, <<"save", "p">>, <<"save", "/">> }
UnknownNames == {"bogus", "Ent"}
CmdLines ==
    ({"match"} \X MatchArgs) \cup ({"ent"} \X EntArgs) \cup ({"turn"} \X TurnArgs)
        \cup ({"store"} \X StoreArgs) \cup (UnknownNames \X EntArgs)

\* the round counter stays within MaxRound
RoundsBounded(ms) == \A mid \in DOMAIN ms : ms[mid].turn_number <= MaxRound

NextC ==
    \/ \E args \in MatchArgs : Run("match", args)
    \/ \E args \in EntArgs : Run("ent", args)
    \/ \E args \in TurnArgs :
          RoundsBounded(run("turn", args, "CLI").matches) /\ Run("turn", args)
    \/ \E args \in StoreArgs : Run("store", args)
    \/ \E name \in UnknownNames, args \in EntArgs : Run(name, args)

SpecCmd == Init /\ [][NextC]_vars

\* ------------------------------------------------------------------------
\* SpecLoad: one match with the commands that write an entity's facing, and
\* save files whose systems, rule snapshots and entities were edited by hand.
\* ------------------------------------------------------------------------
\* ent face / ent clone typed in a channel whose active match is mid: the
\* face and clone branches of ent_cmd
Face(mid, args) ==
    LET r == ent_face(mid, args)
    IN SetMatch(mid, r.matches[mid], Call("face", r.result, None))

Clone(mid, args) ==
    LET r == ent_clone(mid, args)
    IN SetMatch(mid, r.matches[mid], Call("clone", r.result, None))

FaceArgs == { <<"face", "a", "l">>, <<"face", "a", "down">>,
              <<"face", "a", "sideways">>, <<"face", "b", "up">>, <<"face", "a">> }
CloneArgs == { <<"clone", "a", "b", "2", "1">>, <<"clone", "a", "b", "1", "1">>,
               <<"clone", "b", "a", "2", "1">> }

\* the entity of a file: inside the grid or left of it, with any facing text
FileEntities ==
    {[id |-> "a", name |-> "Orc", hp |-> 1, max_hp |-> 1, x |-> x, y |-> 1,
      initiative |-> Some(1), facing |-> f] :
        x \in {0, 1}, f \in {"sideways"}}

FileMatchDicts ==
    {[grid_width |-> GridW, grid_height |-> GridH, system_name |-> sn,
      rules |-> [spawn_face_toward_center |-> FALSE, spawn_default_facing |-> "right"],
      turn_number |-> 1, active_index |-> 0,
      turn_order |-> IF es = {} THEN <<>> ELSE <<"a">>,
      entities |-> [id \in {e.id : e \in es} |-> CHOOSE e \in es : e.id = id]] :
        sn \in {"default", "gone"},
        es \in {{}} \cup {{e} : e \in FileEntities}}

FileSystems ==
    {[n \in {"default"} |->
         [name |-> "default",
          settings |-> [spawn_face_toward_center |-> FALSE,
                        spawn_default_facing |-> "sideways"]]],
     [n \in {"s1"} |->
         [name |-> "s1",
          settings |-> [spawn_face_toward_center |-> FALSE,
                        spawn_default_facing |-> "left"]]],
     [n \in {"default", "s1"} |->
         [name |-> n,
          settings |-> IF n = "s1"
                       THEN [spawn_face_toward_center |-> FALSE,
                             spawn_default_facing |-> "sideways"]
                       ELSE DEFAULT_SYSTEM_SETTINGS]]}

FileDocs ==
    {[matches |-> ms, active_by_channel |-> EmptyMap, systems |-> ss,
      default_system_name |-> dn, default_system_per_server |-> EmptyMap,
      default_system_per_channel |-> EmptyMap] :
        ms \in {EmptyMap} \cup {[mid \in {"m1"} |-> d] : d \in FileMatchDicts},
        ss \in FileSystems, dn \in SystemNames}

NextL ==
    \/ \E system_name \in {None} \cup {Some(n) : n \in SystemNames} :
            CreateMatch("m1", GridW, GridH, None, system_name)
    \/ DeleteMatch("m1")
    \/ \E name \in SystemNames : CreateSystem(name)
    \/ \E name \in SystemNames : SetGlobalDefaultSystem(name)
    \/ \E mid \in DOMAIN matches : Spawn(mid, "a", "Orc", 1, 1, 1, Some(1))
    \/ \E mid \in DOMAIN matches :
            "a" \in DOMAIN matches[mid].entities
            /\ \E moves \in {<<<<"right", 1>>>>, <<<<"L", 1>>>>, <<<<"up", 1>>>>} :
                   MoveDirs(mid, "a", moves)
    \/ \E name \in SystemNames, raw_value \in {"LEFT", "sideways"} :
            SystemSet(name, "spawn_default_facing", raw_value)
    \/ \E mid \in DOMAIN matches, args \in FaceArgs : Face(mid, args)
    \/ \E mid \in DOMAIN matches, args \in CloneArgs : Clone(mid, args)
    \/ \E data \in FileDocs : Load(data)

SpecLoad == Init /\ [][NextL]_vars

\* ------------------------------------------------------------------------
\* SpecSys: game systems, their settings, the default bindings of server
\* and channel, and the match created under them.  "" is a name a command
\* line can carry (system new "", match new ... --system "").
\* ------------------------------------------------------------------------
SysNames == {"", "default", "s1"}
ChannelKeys == {"CLI", "g1:c1", "g1:c2"}
RuleTokens ==
    { <<"spawn_default_facing", "LEFT">>, <<"spawn_default_facing", "sideways">>,
      <<"spawn_face_toward_center", "f">>, <<"spawn_face_toward_center", "maybe">>,
      <<"speed", "1">> }

NextS ==
    \/ \E channel_key \in {None} \cup {Some(c) : c \in ChannelKeys},
          system_name \in {None} \cup {Some(n) : n \in SysNames \cup {"nope"}} :
            CreateMatch("m1", GridW, GridH, channel_key, system_name)
    \/ DeleteMatch("m1")
    \/ \E name \in SysNames : CreateSystem(name)
    \/ \E name \in {"default", "s1", "nope"}, rt \in RuleTokens :
            SystemSet(name, rt[1], rt[2])
    \/ \E name \in {"default", "s1", "nope"} : SetGlobalDefaultSystem(name)
    \/ \E name \in {"s1", "nope"} : SetServerDefaultSystem("g1", name)
    \/ \E name \in {"", "nope"} : SetChannelDefaultSystem("g1:c1", name)

SpecSys == Init /\ [][NextS]_vars

\* ------------------------------------------------------------------------
\* SpecBind: matches and the active match of each channel
\* ------------------------------------------------------------------------
NextB ==
    \/ \E match_id \in MatchIds, channel_key \in ChannelKeys :
            CreateMatch(match_id, GridW, GridH, Some(channel_key), None)
    \/ \E match_id \in MatchIds : DeleteMatch(match_id)
    \/ \E channel_key \in ChannelKeys, match_id \in MatchIds :
            SetActiveForChannel(channel_key, match_id)

SpecBind == Init /\ [][NextB]_vars

\* ------------------------------------------------------------------------
\* The command registry and its help.  registry._handlers holds the names
\* that have a handler; registry._help maps a root to its usage and desc (None
\* until given) and to its annotated subcommands.  A text is the sequence of
\* its lines, a line the tuple of its parts; "!" followed by the root is the
\* usage of a command registered without one.
\* ------------------------------------------------------------------------
\* self._help.setdefault(root, {"usage": None, "desc": None, "subs": {}})
Meta(root) ==
    IF root \in DOMAIN registry._help THEN registry._help[root]
    ELSE [usage |-> None, desc |-> None, subs |-> EmptyMap]

\* a command() that starts the help entry of the name afresh
command_resets_help(name, usage, desc) ==
    /\ registry' = [_handlers |-> registry._handlers \cup {name},
                    _help |-> Put(registry._help, name,
                                  [usage |-> usage, desc |-> desc, subs |-> EmptyMap])]
    /\ last' = Call("command", "ok", None)
    /\ UNCHANGED <<mgr, tasks>>

\* @registry.command(name, usage=..., desc=...)
command(name, usage, desc) ==
    /\ registry' = [_handlers |-> registry._handlers \cup {name},
                    _help |-> Put(registry._help, name,
                                  [Meta(name) EXCEPT
                                     !.usage = IF Truthy(usage) THEN usage ELSE @,
                                     !.desc = IF Truthy(desc) THEN desc ELSE @])]
    /\ last' = Call("command", "ok", None)
    /\ UNCHANGED <<mgr, tasks>>

\* registry.annotate_sub(root, *subs, usage=..., desc=...)
annotate_sub(root, subs, usage, desc) ==
    /\ registry' = [registry EXCEPT
                      !._help = Put(@, root,
                                    [Meta(root) EXCEPT
                                       !.subs = Update(@,
                                           [s \in subs |->
                                               [usage |-> usage,
                                                desc |-> IF Truthy(desc) THEN desc[1]
                                                         ELSE ""]])])]
    /\ last' = Call("annotate_sub", "ok", None)
    /\ UNCHANGED <<mgr, tasks>>

\* sorted(): the strings of a set in code point order
RECURSIVE Sorted(_)
Sorted(names) ==
    IF names = {} THEN <<>>
    ELSE LET first == CHOOSE n \in names : \A o \in names \ {n} : StrLess(n, o)
         IN <<first>> \o Sorted(names \ {first})

\* m.get("usage") or f"!{root}"
UsageOf(root) == IF Truthy(Meta(root).usage) THEN Meta(root).usage ELSE <<"!", root>>

\* registry.help_for(path): the title and the lines of the body
help_for(path) ==
    LET DescOf(root) == IF Truthy(Meta(root).desc) THEN Meta(root).desc[1] ELSE ""
        \* rstrip() of the line "`usage` -- desc"
        ListLine(usage, desc) ==
            IF desc = "" THEN <<usage, "--">> ELSE <<usage, "--", desc>>
    IN
    IF path = <<>>
    THEN LET roots == Sorted(registry._handlers)
         IN [title |-> <<"Help">>,
             body |-> <<<<"**Commands**">>>> \o
                      [i \in 1..Len(roots) |->
                          ListLine(UsageOf(roots[i]), DescOf(roots[i]))]]
    ELSE LET root == path[1]
             subs == Meta(root).subs
         IN IF root \notin registry._handlers
            THEN [title |-> <<"Help">>, body |-> <<<<"Unknown command", root>>>>]
            ELSE IF Len(path) = 1
            THEN LET names == Sorted(DOMAIN subs)
                 IN [title |-> <<"Help:", root>>,
                     body |-> <<<<"**!", root>>, <<"Usage:", UsageOf(root)>>>>
                              \o (IF DescOf(root) # "" THEN <<<<DescOf(root)>>>> ELSE <<>>)
                              \o (IF names = <<>> THEN <<>>
                                  ELSE <<<<"**Subcommands**">>>> \o
                                       [i \in 1..Len(names) |->
                                           <<"-">> \o ListLine(<<subs[names[i]].usage>>,
                                                               subs[names[i]].desc)])]
            ELSE LET sub == path[2]
                 IN IF sub \notin DOMAIN subs
                    THEN [title |-> <<"Help:", root>>,
                          body |-> <<<<"No help found for", root, sub>>>>]
                    ELSE [title |-> <<"Help:", root, sub>>,
                          body |-> <<<<"**!", root, sub>>,
                                     <<"Usage:", <<subs[sub].usage>>>>>>
                                   \o (IF subs[sub].desc # "" THEN <<<<subs[sub].desc>>>>
                                       ELSE <<>>)]

\* !help [command [sub]]
Help(path) ==
    /\ last' = Call("help", "ok", Some(help_for(path)))
    /\ UNCHANGED <<mgr, registry, tasks>>

\* ------------------------------------------------------------------------
\* SpecHelp: commands are registered and annotated, and help is asked for
\* ------------------------------------------------------------------------
NextH ==
    \/ \E name \in {"ent", "turn"}, usage \in {None, Some(""), Some("!ent <sub>")},
          desc \in {None, Some("Manage")} : command(name, usage, desc)
    \/ \E root \in {"ent", "turn"}, subs \in (SUBSET {"add", "tp"}) \ {{}},
          usage \in {"", "!ent add <name>"}, desc \in {None, Some("Add")} :
            annotate_sub(root, subs, usage, desc)
    \/ \E path \in {<<"turn">>, <<"ent", "add">>} : Help(path)

SpecHelp == Init /\ [][NextH]_vars

\* ------------------------------------------------------------------------
\* SpecIso: two matches side by side, holding entities with the same ids;
\* every entity and turn operation is applied to either match.
\* ------------------------------------------------------------------------
NextI ==
    \/ \E match_id \in MatchIds : CreateMatch(match_id, GridW, GridH, None, None)
    \/ \E mid \in DOMAIN matches : Spawn(mid, "a", "Orc", 1, 2, 1, Some(1))
    \/ \E mid \in DOMAIN matches \cap {"m1"} : Spawn(mid, "b", "Orc", 1, 3, 1, Some(1))
    \/ \E mid \in DOMAIN matches : NextTurn(mid)
    \/ \E mid \in DOMAIN matches : \E id \in DOMAIN matches[mid].entities :
            Remove(mid, id)
    \/ \E mid \in DOMAIN matches :
            "a" \in DOMAIN matches[mid].entities /\ Tp(mid, "a", 1, 1)
    \/ \E mid \in DOMAIN matches :
            "a" \in DOMAIN matches[mid].entities /\ MoveDirs(mid, "a", <<<<"right", 1>>>>)
    \/ \E mid \in DOMAIN matches :
            "a" \in DOMAIN matches[mid].entities /\ Damage(mid, "a", 1)
    \/ \E mid \in DOMAIN matches :
            "a" \in DOMAIN matches[mid].entities /\ Heal(mid, "a", 1)
    \/ \E mid \in DOMAIN matches :
            "a" \in DOMAIN matches[mid].entities /\ SetInitiative(mid, "a", MaxInit)
    \/ \E mid \in DOMAIN matches : \E id \in DOMAIN matches[mid].entities :
            TurnSet(mid, id)

SpecIso == Init /\ [][NextI]_vars

\* ------------------------------------------------------------------------
\* The event loop.  A handler is a coroutine: it runs until it awaits
\* ctx.send, where it is suspended and other invocations run.  tasks maps the
\* channel of each suspended invocation to its command, the emission it
\* awaits (at) and, for "state", the matches its emissions were rendered
\* from (seen).  Every handler of run() reads and writes the manager before
\* its only send; state_cmd awaits three handlers, each of which looks the
\* active match up anew and sends.
\* ------------------------------------------------------------------------
\* the text of match_top_cmd: id, system and round of the match
match_top_cmd(mid, m) ==
    [id |-> mid, system_name |-> m.system_name, turn_number |-> m.turn_number]

\* the text of list_cmd: the entities in turn order with the marker of the
\* active one, then the entities outside the turn order
list_cmd(mid, m) ==
    [ordered |-> [i \in 1..Len(m.turn_order) |->
                     IF m.turn_order[i] \in DOMAIN m.entities
                     THEN m.entities[m.turn_order[i]] ELSE None],
     rest |-> {m.entities[id] : id \in {i \in DOMAIN m.entities : ~InSeq(m.turn_order, i)}},
     active_id |-> current_entity_id(m)]

\* one of the three handlers state_cmd awaits, run for the task t of
\* channel_key: the task as it is suspended at that handler's send, or at
\* the send of run()'s except clause when there is no active match
state_cmd(channel_key, t, part) ==
    LET am == active_match(channel_key)
    IN IF am.result # "ok" THEN [t EXCEPT !.at = "error"]
       ELSE [t EXCEPT !.at = part,
                      !.seen = Append(@, [part |-> part, mid |-> am.mid[1],
                                          match |-> matches[am.mid[1]]])]

\* a message arrives on a channel: registry.run up to the first await
Invoke(channel_key, name, args) ==
    /\ channel_key \notin DOMAIN tasks
    /\ IF name = "state"
       THEN /\ tasks' = Put(tasks, channel_key,
                            state_cmd(channel_key,
                                      [name |-> name, args |-> args, at |-> "",
                                       seen |-> <<>>], "match_top_cmd"))
            /\ last' = Call("run", "suspended", None)
            /\ UNCHANGED mgr
       ELSE LET r == run(name, args, channel_key)
            IN /\ RoundsBounded(r.matches)
               /\ matches' = r.matches
               /\ active_by_channel' = r.active
               /\ tasks' = Put(tasks, channel_key,
                               [name |-> name, args |-> args, at |-> "reply",
                                seen |-> <<>>])
               /\ last' = Call("run", "suspended", r.sent)
               /\ UNCHANGED <<systems, default_system_name, default_system_per_server,
                              default_system_per_channel>>
    /\ UNCHANGED registry

\* a Resume under which the handler does its reads and writes after the
\* emission it was suspended at
resume_runs_handler(channel_key) ==
    /\ channel_key \in DOMAIN tasks
    /\ LET t == tasks[channel_key]
           r == run(t.name, t.args, channel_key)
       IN /\ RoundsBounded(r.matches)
          /\ matches' = r.matches
          /\ active_by_channel' = r.active
          /\ tasks' = Del(tasks, channel_key)
          /\ last' = Call("resume", "returned", None)
    /\ UNCHANGED <<systems, default_system_name, default_system_per_server,
                   default_system_per_channel, registry>>

\* the send a task awaits completes: state_cmd goes on to its next handler,
\* every other coroutine returns
Resume(channel_key) ==
    /\ channel_key \in DOMAIN tasks
    /\ LET t == tasks[channel_key]
       IN IF t.at = "match_top_cmd"
          THEN /\ tasks' = Put(tasks, channel_key, state_cmd(channel_key, t, "list_cmd"))
               /\ last' = Call("resume", "suspended", None)
          ELSE IF t.at = "list_cmd"
          THEN /\ tasks' = Put(tasks, channel_key, state_cmd(channel_key, t, "map_cmd"))
               /\ last' = Call("resume", "suspended", None)
          ELSE /\ tasks' = Del(tasks, channel_key)
               /\ last' = Call("resume", "returned", None)
    /\ UNCHANGED <<mgr, registry>>

\* ------------------------------------------------------------------------
\* SpecAsync: two channels of one server send commands that interleave at
\* the emissions; a match is deleted and a save file loaded in between.
\* ------------------------------------------------------------------------
AsyncLines ==
    {<<"match", <<"new", "m1", "n", "3", "1">>>>, <<"match", <<"use", "m1">>>>,
     <<"ent", <<"add", "a", "Orc", "1", "1", "1", "1">>>>,
     <<"ent", <<"tp", "a", "2", "1">>>>,
     <<"turn", <<"next">>>>, <<"store", <<"save", "p">>>>, <<"state", <<>>>>}

NextA ==
    \/ \E channel_key \in {"g1:c1", "g1:c2"}, line \in AsyncLines :
            Invoke(channel_key, line[1], line[2])
    \/ \E channel_key \in {"g1:c1", "g1:c2"} : Resume(channel_key)
    \/ DeleteMatch("m1")
    \/ Load([matches |-> EmptyMap, active_by_channel |-> EmptyMap,
             systems |-> systems, default_system_name |-> "default",
             default_system_per_server |-> EmptyMap,
             default_system_per_channel |-> EmptyMap])

SpecAsync == Init /\ [][NextA]_vars

\* ------------------------------------------------------------------------
\* SpecFace: the facing an entity gets when it is spawned, on grids of every
\* size up to FaceW x FaceH, under the rules the match copied from its system
\* when it was created.
\* ------------------------------------------------------------------------
NextF ==
    \/ \E width \in 1..FaceW, height \in 1..FaceH :
            CreateMatch("m1", width, height, None, None)
    \/ \E name \in SystemNames :
            SystemSet(name, "spawn_face_toward_center", "false")
    \/ \E name \in SystemNames :
            SystemSet(name, "spawn_default_facing", "left")
    \/ \E mid \in DOMAIN matches :
        \E x \in 0..(matches[mid].grid_width + 1),
           y \in 0..(matches[mid].grid_height + 1) :
            Spawn(mid, "a", "Orc", 1, x, y, None)

SpecFace == Init /\ [][NextF]_vars

\* ------------------------------------------------------------------------
\* Properties
\* ------------------------------------------------------------------------
Qualifies(m, id) ==
    /\ id \in DOMAIN m.entities
    /\ m.entities[id].hp > 0
    /\ m.entities[id].initiative # None

ActiveId(m) == m.turn_order[m.active_index + 1]

\* C1: no two distinct living entities of a match are on the same grid cell.
C1_LivingEntitiesOnDistinctCells ==
    \A mid \in DOMAIN matches :
        \A i, j \in DOMAIN matches[mid].entities :
            LET e1 == matches[mid].entities[i]
                e2 == matches[mid].entities[j]
            IN (i # j /\ e1.hp > 0 /\ e2.hp > 0) => <<e1.x, e1.y>> # <<e2.x, e2.y>>

\* C2: turn_order is the duplicate-free list of the ids of the entities with
\* hp > 0 and an initiative, sorted by initiative descending, then lower-cased
\* name ascending, then id ascending.
C2_TurnOrderIsSortedQualifying ==
    \A mid \in DOMAIN matches :
        LET m == matches[mid]
            t == m.turn_order
        IN /\ \A p, q \in 1..Len(t) : p # q => t[p] # t[q]
           /\ {t[p] : p \in 1..Len(t)} =
                  {id \in DOMAIN m.entities :
                      m.entities[id].hp > 0 /\ m.entities[id].initiative # None}
           /\ \A p, q \in 1..Len(t) :
                p < q =>
                    LET a == m.entities[t[p]]
                        b == m.entities[t[q]]
                    IN \/ a.initiative[1] > b.initiative[1]
                       \/ /\ a.initiative[1] = b.initiative[1]
                          /\ StrRank(Lower(a.name)) < StrRank(Lower(b.name))
                       \/ /\ a.initiative[1] = b.initiative[1]
                          /\ Lower(a.name) = Lower(b.name)
                          /\ StrRank(a.id) < StrRank(b.id)

\* C2 witness: a damage has just left an entity with an initiative at hp <= 0,
\* outside a turn order that still holds two entities of equal initiative.
C2_Witness ==
    /\ last.op = "damage"
    /\ \E mid \in DOMAIN matches :
        LET m == matches[mid]
        IN /\ \E id \in DOMAIN m.entities :
                m.entities[id].hp <= 0 /\ m.entities[id].initiative # None
           /\ Len(m.turn_order) = 2
           /\ m.entities[m.turn_order[1]].initiative
                  = m.entities[m.turn_order[2]].initiative

\* C3: active_index is a valid index into turn_order, and 0 when it is empty.
C3_ActiveIndexValid ==
    \A mid \in DOMAIN matches :
        LET m == matches[mid]
        IN IF m.turn_order = <<>> THEN m.active_index = 0
           ELSE 0 <= m.active_index /\ m.active_index < Len(m.turn_order)

\* C3 witness: a damage has just left an order of two entities with the first
\* one active, while a dead entity with an initiative that sorted after both
\* (it stood at the last index) is out of the order.
C3_Witness ==
    /\ last.op = "damage"
    /\ \E mid \in DOMAIN matches :
        LET m == matches[mid]
        IN /\ Len(m.turn_order) = 2
           /\ m.active_index = 0
           /\ \E id \in DOMAIN m.entities :
                /\ m.entities[id].hp <= 0 /\ m.entities[id].initiative # None
                /\ \A p \in 1..2 : KeyLess(m.entities[m.turn_order[p]], m.entities[id])

\* C4: a rebuild by spawn, setInitiative, rename, damage or heal keeps the
\* entity that was active: if it still qualifies it is active afterwards,
\* otherwise active_index is 0.
C4_RebuildKeepsActiveEntity ==
    [][ last'.op \in {"spawn", "set_initiative", "rename", "damage", "heal"} =>
          \A mid \in DOMAIN matches :
              LET m == matches[mid]
                  n == matches'[mid]
              IN m.turn_order # <<>> =>
                    IF Qualifies(n, ActiveId(m))
                    THEN n.turn_order # <<>> /\ ActiveId(n) = ActiveId(m)
                    ELSE n.active_index = 0 ]_vars

\* C5: nextTurn on an empty order changes nothing and returns nothing; else it
\* advances active_index circularly, counts a round exactly when the new index
\* is 0, leaves the order and the entities alone and returns the new active id.
C5_NextTurnStep ==
    [][ last'.op = "next_turn" =>
          \A mid \in DOMAIN matches :
              LET m == matches[mid]
                  n == matches'[mid]
              IN IF m.turn_order = <<>>
                 THEN /\ last'.ret = None
                      /\ n.active_index = m.active_index
                      /\ n.turn_number = m.turn_number
                 ELSE /\ n.active_index = (m.active_index + 1) % Len(m.turn_order)
                      /\ n.turn_number =
                            IF n.active_index = 0 THEN m.turn_number + 1
                            ELSE m.turn_number
                      /\ n.turn_order = m.turn_order
                      /\ n.entities = m.entities
                      /\ last'.ret = Some(m.turn_order[n.active_index + 1]) ]_vars

\* C5 witness: a nextTurn has wrapped a two-entity order around to index 0.
C5_Witness ==
    /\ last.op = "next_turn"
    /\ last.ret # None
    /\ \E mid \in DOMAIN matches :
        /\ Len(matches[mid].turn_order) = 2
        /\ matches[mid].active_index = 0
        /\ matches[mid].turn_number = 2

\* k consecutive next_turn calls: the match they leave and the ids returned
RECURSIVE NextTurns(_, _)
NextTurns(m, k) ==
    IF k = 0 THEN [match |-> m, returned |-> <<>>]
    ELSE LET r == next_turn(m)
             rest == NextTurns(r.match, k - 1)
         IN [match |-> rest.match, returned |-> <<r.ret[1]>> \o rest.returned]

\* C6: from a non-empty order of length n, n consecutive nextTurn calls make
\* every entity of the order active exactly once, end on the entity that was
\* active at the start and raise the round counter by exactly 1.
C6_FullCycle ==
    \A mid \in DOMAIN matches :
        LET m == matches[mid]
            n == Len(m.turn_order)
            r == NextTurns(m, n)
        IN n > 0 =>
            /\ \A id \in {m.turn_order[p] : p \in 1..n} :
                  Cardinality({p \in 1..n : r.returned[p] = id}) = 1
            /\ r.returned[n] = ActiveId(m)
            /\ ActiveId(r.match) = ActiveId(m)
            /\ r.match.turn_number = m.turn_number + 1
            /\ r.match.turn_order = m.turn_order

\* C6 witness: three entities in the order, the middle one active after a
\* nextTurn.
C6_Witness ==
    /\ last.op = "next_turn"
    /\ \E mid \in DOMAIN matches :
        Len(matches[mid].turn_order) = 3 /\ matches[mid].active_index = 1

\* C7: remove() of an entity of the turn order keeps the active entity when
\* another one is removed; when the active one is removed active_index keeps
\* its value, clamped to the last index of the shortened order; the round
\* counter does not change.
C7_RemoveKeepsActive ==
    [][ last'.op = "remove" =>
          \A mid \in DOMAIN matches :
              \A rid \in DOMAIN matches[mid].entities \ DOMAIN matches'[mid].entities :
                  LET m == matches[mid]
                      n == matches'[mid]
                  IN InSeq(m.turn_order, rid) =>
                        /\ n.turn_number = m.turn_number
                        /\ IF rid # ActiveId(m)
                           THEN n.turn_order # <<>> /\ ActiveId(n) = ActiveId(m)
                           ELSE n.active_index =
                                   IF m.active_index <= Len(n.turn_order) - 1
                                   THEN m.active_index
                                   ELSE Max(0, Len(n.turn_order) - 1) ]_vars

\* C8: Match.from_dict(Match.to_dict(match)) has the entities (facing
\* included), turn_order, active_index, round counter and rendered grid of
\* the match.
C8_RoundTrip ==
    \A mid \in DOMAIN matches :
        LET m == matches[mid]
            d == Match_to_dict(m)
        IN /\ d.result = "ok"
           /\ LET r == Match_from_dict(d.data)
              IN /\ r.result = "ok"
                 /\ r.match.entities = m.entities
                 /\ r.match.turn_order = m.turn_order
                 /\ r.match.active_index = m.active_index
                 /\ r.match.turn_number = m.turn_number
                 /\ render_ascii(r.match) = render_ascii(m)

\* C9: a load that fails leaves the matches, channel bindings, systems and
\* default bindings of the manager as they were.
C9_FailedLoadChangesNothing ==
    [][ (last'.op = "load" /\ last'.result # "ok") => UNCHANGED mgr ]_vars

\* C10: every failure of save surfaces as the domain error VTTError.
C10_SaveRaisesOnlyDomainErrors ==
    last.op = "save" => last.result \in {"ok", "VTTError"}

\* ------------------------------------------------------------------------
\* Facing toward the center
\* ------------------------------------------------------------------------
\* facing is the cardinal direction of the larger component of the exact
\* vector from (x, y) to the center ((width + 1) / 2, (height + 1) / 2), the
\* vertical one on a tie.  Both components are kept doubled, as integers.
FacesCenter(facing, x, y, width, height) ==
    LET dx2 == (width + 1) - 2 * x
        dy2 == (height + 1) - 2 * y
        adx == IF dx2 < 0 THEN -dx2 ELSE dx2
        ady == IF dy2 < 0 THEN -dy2 ELSE dy2
    IN IF adx > ady THEN facing = (IF dx2 > 0 THEN "right" ELSE "left")
       ELSE IF dy2 > 0 THEN facing = "down"
       ELSE IF dy2 < 0 THEN facing = "up"
       ELSE facing \in {"up", "down"}

\* C13: with 'face toward center' enabled, an entity spawned on an in-bounds
\* cell faces along the axis on which the exact vector to the grid center has
\* the larger absolute component, the vertical axis on a tie.
C13_FacingFollowsExactVector ==
    \A mid \in DOMAIN matches :
        LET m == matches[mid]
        IN m.rules.spawn_face_toward_center =>
              \A id \in DOMAIN m.entities :
                  FacesCenter(m.entities[id].facing, m.entities[id].x,
                              m.entities[id].y, m.grid_width, m.grid_height)

\* C14: an entity spawned at (5,4) on a 10x8 grid whose rules enable 'face
\* toward center' faces down.
C14_FacingAt5x4On10x8 ==
    \A mid \in DOMAIN matches :
        LET m == matches[mid]
        IN (/\ m.grid_width = 10 /\ m.grid_height = 8
            /\ m.rules.spawn_face_toward_center) =>
              \A id \in DOMAIN m.entities :
                  (m.entities[id].x = 5 /\ m.entities[id].y = 4) =>
                      m.entities[id].facing = "down"

\* C19: a successful spawn registers the entity at (x, y) with the given
\* initiative, if any, and with the facing of the match's own rule snapshot:
\* toward the center when spawn_face_toward_center is true, otherwise the
\* snapshot's spawn_default_facing.
C19_SpawnRegistersWithRuleFacing ==
    \A mid \in DOMAIN matches :
        LET m == matches[mid]
        IN \A x \in 0..(m.grid_width + 1), y \in 0..(m.grid_height + 1),
              initiative \in GridOptInitiatives :
              LET r == spawn(NewEntity("b", "Orc", 1, x, y), FALSE, m, x, y,
                             initiative)
              IN r.result = "ok" =>
                    /\ DOMAIN r.match.entities = DOMAIN m.entities \cup {"b"}
                    /\ r.match.entities["b"].x = x
                    /\ r.match.entities["b"].y = y
                    /\ r.match.entities["b"].initiative = initiative
                    /\ IF m.rules.spawn_face_toward_center
                       THEN FacesCenter(r.match.entities["b"].facing, x, y,
                                        m.grid_width, m.grid_height)
                       ELSE r.match.entities["b"].facing
                                = m.rules.spawn_default_facing

\* ------------------------------------------------------------------------
\* Movement
\* ------------------------------------------------------------------------
\* the unit steps a list of (direction, count) moves consists of; a count
\* below 1 is one step
RECURSIVE UnitSteps(_)
UnitSteps(moves) ==
    IF moves = <<>> THEN <<>>
    ELSE LET d == Head(moves)[1]
             n == Head(moves)[2]
         IN (IF n <= 1 THEN <<d>> ELSE [i \in 1..n |-> d]) \o UnitSteps(Tail(moves))

StepX(d) == IF d = "right" THEN 1 ELSE IF d = "left" THEN -1 ELSE 0
StepY(d) == IF d = "down" THEN 1 ELSE IF d = "up" THEN -1 ELSE 0

\* the cell reached from (x, y) after the first k unit steps
RECURSIVE CellAfter(_, _, _, _)
CellAfter(x, y, steps, k) ==
    IF k = 0 THEN <<x, y>>
    ELSE LET c == CellAfter(x, y, steps, k - 1)
         IN <<c[1] + StepX(steps[k]), c[2] + StepY(steps[k])>>

InGrid(m, c) ==
    c[1] >= 1 /\ c[1] <= m.grid_width /\ c[2] >= 1 /\ c[2] <= m.grid_height

\* a living entity other than id stands on cell c
HeldByOther(m, id, c) ==
    \E o \in DOMAIN m.entities \ {id} :
        /\ m.entities[o].hp > 0
        /\ m.entities[o].x = c[1] /\ m.entities[o].y = c[2]

PathInGrid(m, e, steps) ==
    \A k \in 1..Len(steps) : InGrid(m, CellAfter(e.x, e.y, steps, k))

\* C15: a successful moveDirections leaves the entity displaced by the sum of
\* its steps, facing the direction of the last step; the move succeeds
\* whenever every step stays in the grid and no other living entity holds the
\* final cell, whoever stands on the cells passed through.
C15_MoveDirsSucceeds ==
    \A mid \in DOMAIN matches :
        LET m == matches[mid]
        IN \A id \in DOMAIN m.entities, moves \in MoveLists :
              LET e == m.entities[id]
                  steps == UnitSteps(moves)
                  final == CellAfter(e.x, e.y, steps, Len(steps))
                  r == move_dirs(m, id, moves)
              IN /\ r.result = "ok" =>
                        /\ r.match.entities[id].x = final[1]
                        /\ r.match.entities[id].y = final[2]
                        /\ r.match.entities[id].facing = steps[Len(steps)]
                 /\ (PathInGrid(m, e, steps) /\ ~HeldByOther(m, id, final)) =>
                        r.result = "ok"

\* C16: moveDirections fails with OutOfBounds when any single step leaves the
\* grid and with Occupied when another living entity holds the final cell;
\* a failed call leaves the mover's position, every other entity and the turn
\* order as they were.
C16_MoveDirsFailure ==
    \A mid \in DOMAIN matches :
        LET m == matches[mid]
        IN \A id \in DOMAIN m.entities, moves \in MoveLists :
              LET e == m.entities[id]
                  steps == UnitSteps(moves)
                  final == CellAfter(e.x, e.y, steps, Len(steps))
                  r == move_dirs(m, id, moves)
              IN /\ ~PathInGrid(m, e, steps) => r.result = "OutOfBounds"
                 /\ (PathInGrid(m, e, steps) /\ HeldByOther(m, id, final)) =>
                        r.result = "Occupied"
                 /\ r.result # "ok" =>
                        /\ r.match.entities[id].x = e.x
                        /\ r.match.entities[id].y = e.y
                        /\ DOMAIN r.match.entities = DOMAIN m.entities
                        /\ \A o \in DOMAIN m.entities \ {id} :
                               r.match.entities[o] = m.entities[o]
                        /\ r.match.turn_order = m.turn_order
                        /\ r.match.active_index = m.active_index

\* C16 witness: a moveDirections has just failed with OutOfBounds, and some
\* entity has a move whose first step leaves the grid and whose second step
\* would come back.
C16_Witness ==
    /\ last.op = "move_dirs" /\ last.result = "OutOfBounds"
    /\ \E mid \in DOMAIN matches :
        \E id \in DOMAIN matches[mid].entities, moves \in MoveLists :
            LET e == matches[mid].entities[id]
                steps == UnitSteps(moves)
            IN /\ Len(steps) = 2
               /\ ~InGrid(matches[mid], CellAfter(e.x, e.y, steps, 1))
               /\ InGrid(matches[mid], CellAfter(e.x, e.y, steps, 2))
               /\ move_dirs(matches[mid], id, moves).result = "OutOfBounds"

\* C17: tp(x, y) fails with OutOfBounds outside the grid and with Occupied
\* when a living entity other than the mover is at (x, y), the position
\* unchanged; otherwise (its own cell and cells of dead entities included) the
\* position becomes (x, y); facing, hp, initiative and the turn order never
\* change.
C17_Teleport ==
    \A mid \in DOMAIN matches :
        LET m == matches[mid]
        IN \A id \in DOMAIN m.entities, x \in Xs, y \in Ys :
              LET e == m.entities[id]
                  r == tp(m, id, x, y)
                  n == r.match.entities[id]
              IN /\ IF ~InGrid(m, <<x, y>>)
                    THEN r.result = "OutOfBounds" /\ n.x = e.x /\ n.y = e.y
                    ELSE IF HeldByOther(m, id, <<x, y>>)
                    THEN r.result = "Occupied" /\ n.x = e.x /\ n.y = e.y
                    ELSE r.result = "ok" /\ n.x = x /\ n.y = y
                 /\ n.facing = e.facing /\ n.hp = e.hp
                 /\ n.initiative = e.initiative
                 /\ r.match.turn_order = m.turn_order
                 /\ r.match.active_index = m.active_index

\* ------------------------------------------------------------------------
\* Spawn failures, damage and heal
\* ------------------------------------------------------------------------
\* C18: spawn fails when the entity is already bound, when (x, y) is outside
\* the grid, when a living entity holds (x, y) or when the id exists in the
\* match, and a failed spawn leaves the whole match as it was.
C18_SpawnFailure ==
    \A mid \in DOMAIN matches :
        LET m == matches[mid]
        IN \A id \in GridIds, is_bound \in BOOLEAN, x \in Xs, y \in Ys,
              initiative \in GridOptInitiatives :
              LET e == IF is_bound /\ id \in DOMAIN m.entities
                       THEN m.entities[id] ELSE NewEntity(id, "Orc", 1, x, y)
                  r == spawn(e, is_bound, m, x, y, initiative)
              IN /\ ( \/ is_bound
                      \/ ~InGrid(m, <<x, y>>)
                      \/ \E o \in DOMAIN m.entities :
                            /\ m.entities[o].hp > 0
                            /\ m.entities[o].x = x /\ m.entities[o].y = y
                      \/ id \in DOMAIN m.entities ) => r.result # "ok"
                 /\ r.result # "ok" => r.match = m

\* C18 witness: a spawn has just failed because its id exists in the match,
\* on a free cell of the grid.
C18_Witness ==
    /\ last.op = "spawn" /\ last.result = "DuplicateId"
    /\ \E mid \in DOMAIN matches :
        /\ matches[mid].turn_order # <<>>
        /\ \E id \in DOMAIN matches[mid].entities, x \in Xs, y \in Ys :
              spawn(NewEntity(id, "Orc", 1, x, y), FALSE, matches[mid], x, y,
                    Some(1)).result = "DuplicateId"

\* C20: damage subtracts max(0, amount) with no lower bound, heal adds
\* max(0, amount) up to max_hp; hp never exceeds max_hp and a negative amount
\* changes nothing.
C20_DamageAndHeal ==
    \A mid \in DOMAIN matches :
        LET m == matches[mid]
        IN \A id \in DOMAIN m.entities :
              LET e == m.entities[id]
              IN /\ e.hp <= e.max_hp
                 /\ \A amount \in Amounts :
                      LET d == damage_entity(m, id, amount).entities[id].hp
                          h == heal_entity(m, id, amount).entities[id].hp
                      IN /\ d = IF amount > 0 THEN e.hp - amount ELSE e.hp
                         /\ h = IF amount <= 0 THEN e.hp
                                ELSE IF e.hp + amount > e.max_hp THEN e.max_hp
                                ELSE e.hp + amount

\* C20 witness: a heal has just brought an entity back to its max_hp while
\* another entity stands below zero.
C20_Witness ==
    /\ last.op = "heal"
    /\ \E mid \in DOMAIN matches :
        \E id \in DOMAIN matches[mid].entities, o \in DOMAIN matches[mid].entities :
            /\ matches[mid].entities[id].hp = matches[mid].entities[id].max_hp
            /\ matches[mid].entities[o].hp < 0

\* ------------------------------------------------------------------------
\* The command registry
\* ------------------------------------------------------------------------
\* C11: run never lets a handler's exception escape: it returns normally;
\* after a domain error it has sent that error's message, after any other
\* exception the generic 'unexpected error' message.
C11_RunCatchesHandlerFailures ==
    /\ last.op = "run" => last.result = "returned"
    /\ \A line \in CmdLines :
          line[1] \in _handlers =>
              LET h == handler(line[1], line[2], "CLI")
                  r == run(line[1], line[2], "CLI")
              IN /\ r.outcome = "returned"
                 /\ h.result \in DomainErrors =>
                        r.sent = h.sent \o <<<<"error", h.result>>>>
                 /\ h.result \notin DomainErrors \cup {"ok"} =>
                        r.sent = h.sent \o <<<<"unexpected", h.result>>>>

\* C11 witness: a run has just returned after reporting an unexpected error,
\* in a state where one command line raises a domain error and another one
\* an exception that is none.
C11_Witness ==
    /\ last.op = "run" /\ last.result = "returned"
    /\ last.ret # <<>> /\ last.ret[Len(last.ret)][1] = "unexpected"
    /\ \E line \in CmdLines :
          line[1] \in _handlers /\ handler(line[1], line[2], "CLI").result = "Occupied"
    /\ \E line \in CmdLines :
          line[1] \in _handlers
              /\ handler(line[1], line[2], "CLI").result = "RecursionError"

\* C12: run with a name that has no handler sends the one message 'unknown
\* command', raises nothing, calls no handler and leaves the manager alone.
C12_UnknownCommand ==
    \A line \in CmdLines :
        line[1] \notin _handlers =>
            LET r == run(line[1], line[2], "CLI")
            IN /\ r.outcome = "returned"
               /\ r.sent = <<<<"unknown", line[1]>>>>
               /\ r.matches = matches
               /\ r.active = active_by_channel

\* C12 witness: an unknown command has just been answered while a match with
\* an entity exists.
C12_Witness ==
    /\ last.op = "run" /\ last.result = "returned"
    /\ last.ret = <<<<"unknown", "bogus">>>>
    /\ \E mid \in DOMAIN matches : matches[mid].entities # EmptyMap

\* ------------------------------------------------------------------------
\* C21: in every reachable state every entity's facing is one of up, down,
\* left, right, whatever file was loaded, whatever rules the match holds and
\* whatever the face, clone and move commands were given.
C21_FacingIsCardinal ==
    \A mid \in DOMAIN matches :
        \A id \in DOMAIN matches[mid].entities :
            matches[mid].entities[id].facing \in {"up", "down", "left", "right"}

\* a loaded entity that lies outside the grid, so that no rule set its
\* facing, in a match whose rules name no direction
C21_Witness ==
    /\ last.op = "load" /\ last.result = "ok"
    /\ "m1" \in DOMAIN matches
    /\ "a" \in DOMAIN matches["m1"].entities
    /\ ~in_bounds(matches["m1"], matches["m1"].entities["a"].x,
                  matches["m1"].entities["a"].y)
    /\ matches["m1"].rules.spawn_default_facing \notin ALLOWED_DIRECTIONS
    /\ matches["m1"].entities["a"].facing = "up"

\* ------------------------------------------------------------------------
\* the system the three tiers give a channel: its own default, else the
\* default of its server, else the global default
ThreeTier(channel_key) ==
    IF channel_key \in DOMAIN default_system_per_channel
    THEN default_system_per_channel[channel_key]
    ELSE IF ServerOf(channel_key) \in DOMAIN default_system_per_server
    THEN default_system_per_server[ServerOf(channel_key)]
    ELSE default_system_name

\* C22: create_match called with an explicit system name uses that system,
\* and without one the system the three tiers give the caller's channel;
\* effective_system_name is the three-tier lookup for every channel.
C22_SystemPrecedence ==
    /\ \A ch \in ChannelKeys : effective_system_name(ch) = ThreeTier(ch)
    /\ \A ch \in ChannelKeys, sn \in {None} \cup {Some(n) : n \in SysNames} :
          LET r == create_match("m2", GridW, GridH, Some(ch), sn)
              expected == IF sn # None THEN sn[1] ELSE ThreeTier(ch)
          IN expected \in DOMAIN systems =>
                /\ r.result = "ok"
                /\ r.matches["m2"].system_name = expected

\* C25: create_match with a taken id raises DuplicateId, with an explicit
\* system name that does not exist NotFound, and both leave the matches and
\* every binding as they were; a successful one stores the engine defaults
\* overridden by the chosen system's settings, and that system's name.
C25_CreateMatchOutcomes ==
    /\ [](\A mid \in {"m1", "m2"}, ch \in ChannelKeys,
             sn \in {None} \cup {Some(n) : n \in SysNames \cup {"nope"}} :
             LET r == create_match(mid, GridW, GridH, Some(ch), sn)
                 chosen == IF sn # None THEN sn[1] ELSE ThreeTier(ch)
             IN /\ mid \in DOMAIN matches =>
                     r.result = "DuplicateId" /\ r.matches = matches
                /\ (mid \notin DOMAIN matches /\ sn # None
                        /\ sn[1] \notin DOMAIN systems) =>
                     r.result = "NotFound" /\ r.matches = matches
                /\ r.result = "ok" =>
                     /\ DOMAIN r.matches = DOMAIN matches \cup {mid}
                     /\ \A o \in DOMAIN matches : r.matches[o] = matches[o]
                     /\ r.matches[mid].system_name = chosen
                     /\ r.matches[mid].rules =
                           Update(DEFAULT_SYSTEM_SETTINGS, systems[chosen].settings))
    /\ [][(last'.op = "create_match" /\ last'.result # "ok") => UNCHANGED mgr]_vars

\* ------------------------------------------------------------------------
\* C23: a step that changes a setting of a system, creates a system or
\* changes the global, server or channel default leaves every match with the
\* rules and the system name it had.
C23_RulesFixedAtCreation ==
    [][last'.op \in {"system_set", "create_system", "set_global_default_system",
                     "set_server_default_system", "set_channel_default_system"} =>
          \A mid \in DOMAIN matches :
              /\ mid \in DOMAIN matches'
              /\ matches'[mid].rules = matches[mid].rules
              /\ matches'[mid].system_name = matches[mid].system_name]_vars

\* a setting of the system a match was created under has just been changed,
\* and the match still holds the value of its creation
C23_Witness ==
    /\ last.op = "system_set" /\ last.result = "ok"
    /\ "m1" \in DOMAIN matches
    /\ matches["m1"].system_name = "s1"
    /\ "spawn_default_facing" \in DOMAIN systems["s1"].settings
    /\ systems["s1"].settings.spawn_default_facing = "left"
    /\ matches["m1"].rules.spawn_default_facing = "up"

\* ------------------------------------------------------------------------
\* C24: a load that succeeds leaves every match with the engine defaults
\* overridden by the settings of the loaded system its system_name names,
\* whatever rules the file held for it; a match of the file whose system is
\* not among the loaded systems carries the loaded global default's name.
C24_LoadRecomputesRules ==
    /\ (last.op = "load" /\ last.result = "ok") =>
          \A mid \in DOMAIN matches :
              /\ matches[mid].system_name \in DOMAIN systems
              /\ matches[mid].rules =
                    Update(DEFAULT_SYSTEM_SETTINGS,
                           systems[matches[mid].system_name].settings)
    /\ \A data \in FileDocs :
          LET r == load_document(data)
          IN r.result = "ok" =>
                /\ DOMAIN r.matches = DOMAIN data.matches
                /\ \A mid \in DOMAIN r.matches :
                      LET sn == r.matches[mid].system_name
                      IN /\ sn = IF data.matches[mid].system_name \in DOMAIN data.systems
                                 THEN data.matches[mid].system_name
                                 ELSE data.default_system_name
                         /\ sn \in DOMAIN data.systems
                         /\ r.matches[mid].rules =
                               Update(DEFAULT_SYSTEM_SETTINGS, data.systems[sn].settings)

\* a file has been loaded whose match names a system that is not in the
\* file (no file names s1 for its match): the match now carries the name of
\* the file's default system and rules that differ from the ones of the file
C24_Witness ==
    /\ last.op = "load" /\ last.result = "ok"
    /\ "m1" \in DOMAIN matches
    /\ "default" \notin DOMAIN systems
    /\ matches["m1"].system_name = "s1"
    /\ default_system_name = "s1"
    /\ matches["m1"].rules.spawn_default_facing = "left"

\* ------------------------------------------------------------------------
\* C27: the manager starts with a system named default, and no operation
\* that succeeds (a load included) leaves the manager without it.
C27_DefaultSystemExists ==
    [][("default" \in DOMAIN systems /\ last'.result = "ok") =>
          "default" \in DOMAIN systems']_vars

\* ------------------------------------------------------------------------
\* C26: every channel's active binding names an existing match;
\* set_active_for_channel with an id that names no match raises NotFound and
\* keeps the bindings, delete_match of an absent id raises NotFound, and
\* delete_match of a match removes the bindings that name it and only those.
C26_BindingsNameMatches ==
    /\ \A ch \in DOMAIN active_by_channel : active_by_channel[ch] \in DOMAIN matches
    /\ \A ch \in ChannelKeys, mid \in MatchIds :
          LET r == set_active_for_channel(ch, mid)
          IN IF mid \in DOMAIN matches
             THEN /\ r.result = "ok"
                  /\ r.active = Put(active_by_channel, ch, mid)
             ELSE r.result = "NotFound" /\ r.active = active_by_channel
    /\ \A mid \in MatchIds :
          LET r == delete_match(mid)
          IN IF mid \notin DOMAIN matches
             THEN /\ r.result = "NotFound"
                  /\ r.matches = matches /\ r.active = active_by_channel
             ELSE /\ r.result = "ok"
                  /\ r.matches = Del(matches, mid)
                  /\ DOMAIN r.active =
                        {ch \in DOMAIN active_by_channel : active_by_channel[ch] # mid}
                  /\ \A ch \in DOMAIN r.active : r.active[ch] = active_by_channel[ch]

\* a match has just been deleted while another match is still the active
\* one of a channel, and a channel is left without an active match
C26_Witness ==
    /\ last.op = "delete_match" /\ last.result = "ok"
    /\ DOMAIN matches = {"m2"}
    /\ DOMAIN active_by_channel = {"CLI"}
    /\ active_by_channel["CLI"] = "m2"

\* ------------------------------------------------------------------------
\* a value the schema allows for a rule
ValidFor(key, value) ==
    IF RULE_SCHEMA[key].type = "bool" THEN value \in BOOLEAN
    ELSE value \in RULE_SCHEMA[key].choices

\* C28: a rule value is checked against the schema before it is stored: a
\* value outside the allowed set and an unknown key give a validation error
\* that names what is allowed, and the settings stay as they were; LEFT is
\* stored as left; every setting a system holds is a schema key with a
\* value valid for it.
C28_SettingsAreValidated ==
    /\ [](/\ _coerce_rule_value("spawn_default_facing", "sideways").result = "VTTError"
          /\ _coerce_rule_value("spawn_default_facing", "sideways").value =
                "must be one of: down, left, right, up"
          /\ _coerce_rule_value("speed", "1").result = "VTTError"
          /\ _coerce_rule_value("speed", "1").value =
                "Unknown setting. Allowed: the schema keys"
          /\ _coerce_rule_value("spawn_default_facing", "LEFT") =
                [result |-> "ok", value |-> "left"]
          /\ \A n \in DOMAIN systems :
                \A k \in DOMAIN systems[n].settings :
                    /\ k \in DOMAIN RULE_SCHEMA
                    /\ ValidFor(k, systems[n].settings[k]))
    /\ [][last'.op = "system_set" =>
            IF last'.result = "ok"
            THEN \E n \in DOMAIN systems, k \in DOMAIN RULE_SCHEMA :
                    /\ DOMAIN systems' = DOMAIN systems
                    /\ \A o \in DOMAIN systems \ {n} : systems'[o] = systems[o]
                    /\ k \in DOMAIN systems'[n].settings
                    /\ ValidFor(k, systems'[n].settings[k])
                    /\ \A j \in DOMAIN systems[n].settings \ {k} :
                          /\ j \in DOMAIN systems'[n].settings
                          /\ systems'[n].settings[j] = systems[n].settings[j]
            ELSE UNCHANGED mgr]_vars

\* ------------------------------------------------------------------------
\* C29: a match is created with round 1; no step lowers the round of a
\* match; next_turn leaves it or adds 1, and adds 1 only when the turn
\* passes to index 0; every other operation leaves it as it was, whatever it
\* does to the active index.
C29_RoundCounter ==
    [][/\ \A mid \in DOMAIN matches' \ DOMAIN matches :
              matches'[mid].turn_number = 1
       /\ \A mid \in DOMAIN matches :
              /\ mid \in DOMAIN matches'
              /\ matches'[mid].turn_number >= matches[mid].turn_number
              /\ IF last'.op = "next_turn"
                 THEN \/ matches'[mid].turn_number = matches[mid].turn_number
                      \/ /\ matches'[mid].turn_number = matches[mid].turn_number + 1
                         /\ matches'[mid].active_index = 0
                 ELSE matches'[mid].turn_number = matches[mid].turn_number]_vars

\* in round 2 one of two entities has just been removed: the order holds
\* the other one, the active index is 0 and the round is still 2
C29_Witness ==
    /\ last.op = "remove"
    /\ "m1" \in DOMAIN matches
    /\ matches["m1"].turn_number = 2
    /\ matches["m1"].active_index = 0
    /\ Len(matches["m1"].turn_order) = 1
    /\ DOMAIN matches["m1"].entities = {"a"}

\* ------------------------------------------------------------------------
\* the objects that are bound in a state: the entities the matches
\* register, and the objects a spawn that failed with DuplicateId left bound
RegisteredObjects ==
    UNION {{EntityObject(matches[mid].entities[id], Some(mid)) :
               id \in DOMAIN matches[mid].entities} : mid \in DOMAIN matches}

BoundObjects ==
    {r.obj : r \in {t \in {Entity_spawn(EntityObject(NewEntity("a", "Orc", 1, x, 1), None),
                                        matches, mid, x, 1, None) :
                              mid \in DOMAIN matches, x \in 1..GridW} :
                       t.result = "DuplicateId"}}
        \cup RegisteredObjects

\* what holds of an object o bound to a match of ms
BindingLaw(o, ms) ==
    /\ \A target \in DOMAIN ms, x \in 0..(GridW + 1), y \in 0..(GridH + 1) :
          LET r == Entity_spawn(o, ms, target, x, y, Some(1))
          IN r.result = "VTTError" /\ r.matches = ms /\ r.obj = o
    /\ LET gone == Entity_remove(o, ms)
           former == o._match[1]
       IN /\ gone.result = "ok"
          /\ gone.obj._match = None
          /\ o.e.id \notin DOMAIN gone.matches[former].entities
          /\ ~InSeq(gone.matches[former].turn_order, o.e.id)
          /\ \A other \in DOMAIN ms \ {former} : gone.matches[other] = ms[other]
          /\ \A target \in DOMAIN ms, x \in 1..GridW, y \in 1..GridH :
                LET back == Entity_spawn(gone.obj, gone.matches, target, x, y, Some(1))
                IN (/\ ~is_occupied(gone.matches[target], x, y, None)
                    /\ o.e.id \notin DOMAIN gone.matches[target].entities) =>
                      /\ back.result = "ok"
                      /\ back.obj._match = Some(target)
                      /\ o.e.id \in DOMAIN back.matches[target].entities
                      /\ InSeq(back.matches[target].turn_order, o.e.id)
                      /\ \A other \in DOMAIN ms \ {target} :
                            back.matches[other] = gone.matches[other]

\* C30: spawn on a bound entity fails and changes no match and not the
\* entity; remove unbinds the entity and takes its id out of the entity map
\* and the turn order of the match it was bound to, and the entity can then
\* be spawned into any match on any free cell, which binds it to that match.
\* The same holds of the registered entity whose entry the remove of an
\* unregistered object with its id has deleted.
C30_BoundToOneMatch ==
    \A o \in BoundObjects :
        /\ BindingLaw(o, matches)
        /\ o \notin RegisteredObjects =>
              BindingLaw(EntityObject(matches[o._match[1]].entities[o.e.id], o._match),
                         Entity_remove(o, matches).matches)

\* two matches, each with a bound entity, so that an entity of one can be
\* spawned into the other and removed from its own
C30_Witness ==
    /\ DOMAIN matches = {"m1", "m2"}
    /\ "a" \in DOMAIN matches["m1"].entities
    /\ DOMAIN matches["m2"].entities = {}
    /\ \E o \in BoundObjects : o \notin RegisteredObjects

\* ------------------------------------------------------------------------
\* C31: remove() of an entity that is not in turn_order (dead, or without
\* initiative) leaves turn_order, active_index and the round counter of its
\* match as they were and unbinds the entity; remove() called again on the
\* entity it has unbound raises and changes no match.
C31_RemoveOutsideTurnOrder ==
    \A o \in RegisteredObjects :
        LET m == matches[o._match[1]]
            gone == Entity_remove(o, matches)
            n == gone.matches[o._match[1]]
            again == Entity_remove(gone.obj, gone.matches)
        IN /\ gone.obj._match = None
           /\ again.result = "VTTError" /\ again.matches = gone.matches
           /\ ~InSeq(m.turn_order, o.e.id) =>
                 /\ n.turn_order = m.turn_order
                 /\ n.active_index = m.active_index
                 /\ n.turn_number = m.turn_number

\* ------------------------------------------------------------------------
\* the states of a match in which the code calls _rebuild_turn_order: the
\* match as it is, and the match after the field changes an operation makes
\* before it rebuilds (an entity damaged, healed, given an initiative, or
\* taken out of the entity map)
BeforeRebuild(m) ==
    {m} \cup {[m EXCEPT !.entities[id] = take_damage(@, 1)] : id \in DOMAIN m.entities}
        \cup {[m EXCEPT !.entities[id] = heal(@, 1)] : id \in DOMAIN m.entities}
        \cup {[m EXCEPT !.entities[id].initiative = Some(v)] :
                 id \in DOMAIN m.entities, v \in Initiatives}
        \cup {[m EXCEPT !.entities = Del(@, id)] : id \in DOMAIN m.entities}

\* C32: a second _rebuild_turn_order right after the first leaves turn_order
\* and active_index as the first left them.
C32_RebuildIsIdempotent ==
    \A mid \in DOMAIN matches : \A s \in BeforeRebuild(matches[mid]) :
        LET once == _rebuild_turn_order(s)
            twice == _rebuild_turn_order(once)
        IN twice.turn_order = once.turn_order /\ twice.active_index = once.active_index

\* a rebuild that changes both the order and the active index: the active
\* entity of an order of three leaves it
C32_Witness ==
    \E mid \in DOMAIN matches : \E s \in BeforeRebuild(matches[mid]) :
        /\ Len(s.turn_order) = 3 /\ s.active_index = 2
        /\ _rebuild_turn_order(s).turn_order # s.turn_order
        /\ _rebuild_turn_order(s).active_index # s.active_index

\* ------------------------------------------------------------------------
\* the paths help is asked for
Paths ==
    LET Roots == {"ent", "turn", "nope"}
        Subs == {"add", "tp", "nope"}
    IN {<<>>} \cup {<<r>> : r \in Roots} \cup {<<r, s>> : r \in Roots, s \in Subs}
           \cup {<<r, s, "x">> : r \in Roots, s \in Subs}

\* what help_for answers for a path, in a state of the registry
HelpAnswers(path) ==
    LET h == help_for(path)
        registered == registry._handlers
    IN IF path = <<>>
       THEN /\ Len(h.body) = Cardinality(registered) + 1
            /\ \E f \in [1..Cardinality(registered) -> registered] :
                  /\ \A i, j \in DOMAIN f : i < j => StrLess(f[i], f[j])
                  /\ \A i \in DOMAIN f : h.body[i + 1][1] = UsageOf(f[i])
       ELSE IF path[1] \notin registered
       THEN h.body = <<<<"Unknown command", path[1]>>>>
       ELSE LET subs == registry._help[path[1]].subs
            IN IF Len(path) = 1
               THEN /\ h.body[2] = <<"Usage:", UsageOf(path[1])>>
                    /\ \A s \in DOMAIN subs :
                          Cardinality({i \in DOMAIN h.body :
                                          /\ h.body[i][1] = "-"
                                          /\ h.body[i][2] = <<subs[s].usage>>}) >= 1
                    /\ Cardinality({i \in DOMAIN h.body : h.body[i][1] = "-"})
                          = Cardinality(DOMAIN subs)
               ELSE IF path[2] \in DOMAIN subs
               THEN /\ h.title = <<"Help:", path[1], path[2]>>
                    /\ h.body[2] = <<"Usage:", <<subs[path[2]].usage>>>>
                    /\ \A i \in DOMAIN h.body : h.body[i][1] # "-"
               ELSE h.body = <<<<"No help found for", path[1], path[2]>>>>

C34_ToDictOfBoundEntity ==
    \A o \in RegisteredObjects :
        LET d == Entity_to_dict(o.e, o._match # None)
        IN /\ d.result = "ok"
           /\ d.data = o.e
           /\ DOMAIN d.data =
                 {"id", "name", "hp", "max_hp", "x", "y", "initiative", "facing"}

\* ------------------------------------------------------------------------
\* C35: a moveDirections that fails with OutOfBounds or Occupied leaves the
\* facing of the entity as it was before the call.
C35_FailedMoveKeepsFacing ==
    \A mid \in DOMAIN matches :
        \A id \in DOMAIN matches[mid].entities, moves \in MoveLists :
            LET r == move_dirs(matches[mid], id, moves)
            IN r.result \in {"OutOfBounds", "Occupied"} =>
                  r.match.entities[id].facing = matches[mid].entities[id].facing

\* ------------------------------------------------------------------------
\* C36: a spawn that fails (entity already bound, cell out of bounds, cell
\* occupied, id already in the match) leaves the position, facing, initiative
\* and binding of the entity as they were; an unbound entity whose spawn
\* failed is still unbound, so that its remove() raises and deletes nothing.
C36_FailedSpawnKeepsEntity ==
    \A o \in RegisteredObjects
             \cup {EntityObject(NewEntity(id, "Orc", 1, 1, 1), None) : id \in {"a", "b"}} :
        \A mid \in DOMAIN matches, x \in 0..GridW, y \in 1..GridH,
           initiative \in {None, Some(MaxInit)} :
            LET r == Entity_spawn(o, matches, mid, x, y, initiative)
            IN r.result # "ok" =>
                  /\ r.obj = o
                  /\ r.matches = matches
                  /\ o._match = None =>
                        LET gone == Entity_remove(r.obj, r.matches)
                        IN gone.result = "VTTError" /\ gone.matches = matches

\* ------------------------------------------------------------------------
\* every name that refers to a system names a system of the manager
SystemReferencesResolve ==
    /\ default_system_name \in DOMAIN systems
    /\ \A s \in DOMAIN default_system_per_server :
          default_system_per_server[s] \in DOMAIN systems
    /\ \A c \in DOMAIN default_system_per_channel :
          default_system_per_channel[c] \in DOMAIN systems
    /\ \A mid \in DOMAIN matches : matches[mid].system_name \in DOMAIN systems

\* C37: the global default, the per-server and per-channel defaults and the
\* system_name of every match name existing systems, and no operation that
\* succeeds (system creation, default setting, match creation, load) ends
\* that; a default setting that fails changes nothing.
C37_SystemReferencesResolve ==
    [][ /\ (SystemReferencesResolve /\ last'.result = "ok") => SystemReferencesResolve'
        /\ (last'.op \in {"set_global_default_system", "set_server_default_system",
                          "set_channel_default_system"} /\ last'.result # "ok") =>
              (last'.result = "NotFound" /\ UNCHANGED mgr) ]_vars

\* ------------------------------------------------------------------------
\* the entity and turn operations
MatchOps ==
    {"spawn", "remove", "tp", "move_dirs", "damage", "heal", "set_initiative",
     "next_turn", "turn_set"}

\* C38: an entity or turn operation on one match, successful or failed,
\* leaves the entities, turn_order, active_index, round counter and rules of
\* every other match as they were: a step of such an operation changes at
\* most one match, and the remove() and spawn() of an entity object change
\* no match but the one the object is bound to or spawned into.
C38_MatchesAreIsolated ==
    /\ [][last'.op \in MatchOps =>
             /\ DOMAIN matches' = DOMAIN matches
             /\ Cardinality({mid \in DOMAIN matches : matches'[mid] # matches[mid]}) <= 1
         ]_vars
    /\ [](\A o \in RegisteredObjects :
             /\ \A other \in DOMAIN matches \ {o._match[1]} :
                   Entity_remove(o, matches).matches[other] = matches[other]
             /\ \A target \in DOMAIN matches, x \in 0..GridW :
                   \A other \in DOMAIN matches \ {target} :
                       Entity_spawn([o EXCEPT !._match = None], matches, target,
                                    x, 1, Some(1)).matches[other] = matches[other])

\* both matches hold an entity "a", on different cells, and the last
\* operation changed one of them
C38_Witness ==
    /\ DOMAIN matches = {"m1", "m2"}
    /\ "a" \in DOMAIN matches["m1"].entities /\ "a" \in DOMAIN matches["m2"].entities
    /\ matches["m1"].entities["a"] # matches["m2"].entities["a"]
    /\ matches["m1"].turn_order # matches["m2"].turn_order
    /\ last.op = "move_dirs"

OneSnapshot(seen) ==
    seen # <<>> =>
        \E k \in DOMAIN seen :
            \A i \in DOMAIN seen :
                /\ seen[i].mid = seen[k].mid
                /\ IF seen[i].part = "match_top_cmd"
                   THEN match_top_cmd(seen[i].mid, seen[i].match)
                           = match_top_cmd(seen[k].mid, seen[k].match)
                   ELSE IF seen[i].part = "list_cmd"
                   THEN list_cmd(seen[i].mid, seen[i].match)
                           = list_cmd(seen[k].mid, seen[k].match)
                   ELSE render_ascii(seen[i].match) = render_ascii(seen[k].match)

\* C40: the summary, the entity list and the map that one state command
\* emits describe the same state of the same match, whatever runs on other
\* channels while it is suspended between its emissions.
C40_StateIsOneSnapshot ==
    \A ch \in DOMAIN tasks : tasks[ch].name = "state" => OneSnapshot(tasks[ch].seen)

====
